---- MODULE Spec2Model ----
(***************************************************************************)
(* SUDOKOO: the puzzle session (SudokuEngine, src/js/sudoku.js) and the    *)
(* part of the game controller (SudokooApp) that drives it.                *)
(*                                                                         *)
(* Grids are 9x9, indexed from 0 as in the source: grid[row][col].         *)
(* A missing solution (JavaScript null) is the value Null.                 *)
(***************************************************************************)
EXTENDS Integers, FiniteSets, Sequences, TLC

VARIABLES grid, initialGrid, solution, pencilMarks,
          selectedCell, pencilMode, timer,
          puzzle, ret,
          refs,  \* which array object each holder refers to (0: none)
          run    \* the call of the solver, generator or scanner in progress

engineVars == <<grid, initialGrid, solution, pencilMarks>>
appVars == <<selectedCell, pencilMode, timer>>
vars == <<grid, initialGrid, solution, pencilMarks, selectedCell, pencilMode, timer, puzzle, ret, refs, run>>

(***************************************************************************)
(* Bounds of the model.                                                    *)
(***************************************************************************)
\* init is called with one of the puzzles PuzzleTable[1..NumPuzzles]
NumPuzzles == 5
\* pencil marks are toggled by hand for the digits 1..MaxMark
MaxMark == 1
\* the solvers are called with the grids SolverTable[1..NumSolverInputs]
NumSolverInputs == 7
\* fillGrid is followed from the point where FillCells cells are left to fill
FillCells == 24
\* createPuzzle is followed for the shuffles ShuffleTable[1..NumShuffles]
NumShuffles == 3

\* the side of the grid and of a box (the literals 9 and 3 of the source)
N == 9
BOX == 3

Idx == 0..(N - 1)
Digits == 1..N
Null == <<>>
NoCell == <<>>

\* the values passed to placeNumber
NumInputs == 0..N
MarkInputs == 1..MaxMark

(***************************************************************************)
(* The puzzles of the model. Base is the complete grid of the fallback     *)
(* puzzle's solution; the others blank or overwrite a few of its cells.    *)
(***************************************************************************)
Base ==
  [row \in Idx |->
     [col \in Idx |->
        << <<5,3,4,6,7,8,9,1,2>>,
           <<6,7,2,1,9,5,3,4,8>>,
           <<1,9,8,3,4,2,5,6,7>>,
           <<8,5,9,7,6,1,4,2,3>>,
           <<4,2,6,8,5,3,7,9,1>>,
           <<7,1,3,9,2,4,8,5,6>>,
           <<9,6,1,5,3,7,2,8,4>>,
           <<2,8,7,4,1,9,6,3,5>>,
           <<3,4,5,2,8,6,1,7,9>> >>[row + 1][col + 1]]]

\* g with the cells in the domain of the function ov overwritten
Overwrite(g, ov) ==
  [row \in Idx |-> [col \in Idx |->
     IF <<row, col>> \in DOMAIN ov THEN ov[<<row, col>>] ELSE g[row][col]]]

Blank(cells) == [c \in cells |-> 0]

\* 1: complete grid; 2: one empty cell (the fallback puzzle);
\* 3: three empty cells, each with a legal value that is not the solution's;
\* 4: a duplicate among the givens; 5: consistent givens without a completion;
\* 6: two empty cells
PuzzleTable ==
  << Base,
     Overwrite(Base, Blank({<<8,8>>})),
     Overwrite(Base, Blank({<<3,5>>, <<3,8>>, <<4,5>>})),
     Overwrite(Base, (<<8,8>> :> 0) @@ (<<8,7>> :> 1)),
     Overwrite(Base, (<<8,8>> :> 0) @@ (<<4,7>> :> 0) @@ (<<8,7>> :> 9)),
     Overwrite(Base, Blank({<<8,8>>, <<3,5>>})) >>

Puzzles == {PuzzleTable[i] : i \in 1..NumPuzzles}

\* the solutions a caller passes to init: none, or the fallback solution
SolutionInputs == {Null, Base}

\* the cells the caller addresses: the cells some puzzle leaves empty and
\* a cell that is given in every puzzle
ActCells == {<<0,0>>, <<8,8>>, <<3,5>>, <<3,8>>, <<4,5>>, <<4,7>>}

(***************************************************************************)
(* SudokuEngine                                                            *)
(***************************************************************************)
deepCopy(g) == [row \in DOMAIN g |-> [col \in DOMAIN g[row] |-> g[row][col]]]

boxStart(x) == (x \div BOX) * BOX

\* variant: the row scan is missing
isValidMoveOn_NoRow(g, row, col, num) ==
  IF initialGrid[row][col] # 0 THEN FALSE
  ELSE IF \E x \in Idx : x # row /\ g[x][col] = num THEN FALSE
  ELSE IF \E i \in boxStart(row)..(boxStart(row) + BOX - 1) :
          \E j \in boxStart(col)..(boxStart(col) + BOX - 1) :
             (i # row \/ j # col) /\ g[i][j] = num THEN FALSE
  ELSE TRUE

\* isValidMove evaluated on the grid g (this.grid at the time of the call)
isValidMoveOn(g, row, col, num) ==
  IF initialGrid[row][col] # 0 THEN FALSE
  ELSE IF \E x \in Idx : x # col /\ g[row][x] = num THEN FALSE
  ELSE IF \E x \in Idx : x # row /\ g[x][col] = num THEN FALSE
  ELSE IF \E i \in boxStart(row)..(boxStart(row) + BOX - 1) :
          \E j \in boxStart(col)..(boxStart(col) + BOX - 1) :
             (i # row \/ j # col) /\ g[i][j] = num THEN FALSE
  ELSE TRUE

isValidMove(row, col, num) == isValidMoveOn(grid, row, col, num)

\* variant: the row scan is missing
isValidMoveForGrid_NoRow(g, row, col, num) ==
  IF \E x \in Idx : g[x][col] = num THEN FALSE
  ELSE IF \E i \in boxStart(row)..(boxStart(row) + BOX - 1) :
          \E j \in boxStart(col)..(boxStart(col) + BOX - 1) : g[i][j] = num THEN FALSE
  ELSE TRUE

isValidMoveForGrid(g, row, col, num) ==
  IF \E x \in Idx : g[row][x] = num THEN FALSE
  ELSE IF \E x \in Idx : g[x][col] = num THEN FALSE
  ELSE IF \E i \in boxStart(row)..(boxStart(row) + BOX - 1) :
          \E j \in boxStart(col)..(boxStart(col) + BOX - 1) : g[i][j] = num THEN FALSE
  ELSE TRUE

\* the first empty cell of g in row-major order, as row * 9 + col
firstEmpty(g) ==
  LET E == {k \in 0..(N * N - 1) : g[k \div N][k % N] = 0}
  IN CHOOSE k \in E : \A m \in E : k <= m

RECURSIVE solveRecursive(_), solveTry(_, _, _, _)
\* the loop over num of solveRecursive at the empty cell (row, col), from num on
solveTry(g, row, col, num) ==
  IF num > N THEN [ok |-> FALSE, grid |-> g]
  ELSE IF isValidMoveForGrid(g, row, col, num)
       THEN LET r == solveRecursive([g EXCEPT ![row][col] = num])
            IN IF r.ok THEN r
               ELSE solveTry([r.grid EXCEPT ![row][col] = 0], row, col, num + 1)
       ELSE solveTry(g, row, col, num + 1)

\* the result and the grid as the call leaves it
solveRecursive(g) ==
  IF \A row \in Idx, col \in Idx : g[row][col] # 0
  THEN [ok |-> TRUE, grid |-> g]
  ELSE LET k == firstEmpty(g) IN solveTry(g, k \div N, k % N, 1)

solvePuzzle(g) ==
  LET r == solveRecursive(deepCopy(g))
  IN IF r.ok THEN r.grid ELSE Null

\* solvePuzzle(deepCopy(p)) for the puzzles of the model, computed once
solvedCopy == [p \in Puzzles |-> solvePuzzle(deepCopy(p))]

emptyMarks == [row \in Idx |-> [col \in Idx |-> {}]]

clearPencilMarksForCell(pm, row, col) == [pm EXCEPT ![row][col] = {}]

removePencilMark(pm, row, col, num) == [pm EXCEPT ![row][col] = @ \ {num}]

\* variant: the loop over the row is missing
updatePencilMarks_NoRow(pm, row, col, num) ==
  [i \in Idx |-> [j \in Idx |->
     IF \/ j = col
        \/ (boxStart(i) = boxStart(row) /\ boxStart(j) = boxStart(col))
     THEN pm[i][j] \ {num}
     ELSE pm[i][j]]]

\* variant: the value is removed from the marks of every cell
updatePencilMarks_Everywhere(pm, row, col, num) ==
  [i \in Idx |-> [j \in Idx |-> pm[i][j] \ {num}]]

\* the three loops of updatePencilMarks: row, column, box
updatePencilMarks(pm, row, col, num) ==
  [i \in Idx |-> [j \in Idx |->
     IF \/ i = row
        \/ j = col
        \/ (boxStart(i) = boxStart(row) /\ boxStart(j) = boxStart(col))
     THEN pm[i][j] \ {num}
     ELSE pm[i][j]]]

isValidSolutionOn(g) ==
  \A row \in Idx, col \in Idx :
     g[row][col] # 0 =>
        isValidMoveOn([g EXCEPT ![row][col] = 0], row, col, g[row][col])

isValidSolution == isValidSolutionOn(grid)

\* variant: the early return comes before the cell is restored
isValidSolutionCell_ReturnBeforeRestore(g, row, col) ==
  LET num == g[row][col]
      cleared == [g EXCEPT ![row][col] = 0]
      isValid == isValidMoveOn(cleared, row, col, num)
      restored == [cleared EXCEPT ![row][col] = num]
  IN IF num = 0 THEN [ok |-> TRUE, grid |-> g]
     ELSE [ok |-> isValid, grid |-> IF isValid THEN restored ELSE cleared]

\* the body of isValidSolution's loops at (row, col): the cell is cleared,
\* checked and restored; ok is FALSE when the method returns false here
isValidSolutionCell(g, row, col) ==
  LET num == g[row][col]
      cleared == [g EXCEPT ![row][col] = 0]
      isValid == isValidMoveOn(cleared, row, col, num)
      restored == [cleared EXCEPT ![row][col] = num]
  IN IF num = 0 THEN [ok |-> TRUE, grid |-> g]
     ELSE [ok |-> isValid, grid |-> restored]

RECURSIVE isValidSolutionCols(_, _, _), isValidSolutionRows(_, _)
\* the inner loop of isValidSolution, from col on
isValidSolutionCols(g, row, col) ==
  IF col >= N THEN [ok |-> TRUE, grid |-> g]
  ELSE LET r == isValidSolutionCell(g, row, col)
       IN IF r.ok THEN isValidSolutionCols(r.grid, row, col + 1) ELSE r

\* the outer loop of isValidSolution, from row on
isValidSolutionRows(g, row) ==
  IF row >= N THEN [ok |-> TRUE, grid |-> g]
  ELSE LET r == isValidSolutionCols(g, row, 0)
       IN IF r.ok THEN isValidSolutionRows(r.grid, row + 1) ELSE r

\* what isValidSolution() returns (ok) and the working grid it leaves
isValidSolutionRun == isValidSolutionRows(grid, 0)

isSolved ==
  IF \E row \in Idx, col \in Idx : grid[row][col] = 0 THEN FALSE
  ELSE isValidSolution

\* variant: the loop stops before 9 (num < 9)
getPossibleValues_Below9(row, col) ==
  IF grid[row][col] # 0 THEN <<>>
  ELSE LET RECURSIVE scan(_, _)
           scan(num, possible) ==
             IF num >= N THEN possible
             ELSE scan(num + 1, IF isValidMove(row, col, num)
                                THEN Append(possible, num) ELSE possible)
       IN scan(1, <<>>)

\* the ascending list of getPossibleValues
getPossibleValues(row, col) ==
  IF grid[row][col] # 0 THEN <<>>
  ELSE LET RECURSIVE scan(_, _)
           scan(num, possible) ==
             IF num > N THEN possible
             ELSE scan(num + 1, IF isValidMove(row, col, num)
                                THEN Append(possible, num) ELSE possible)
       IN scan(1, <<>>)

\* variant: the early return for a cell that does not hold num is missing
getConflictingCells_NoEarlyReturn(row, col, num) ==
  LET holds(d) == grid[d[1]][d[2]] = num
      rowConflicts == SelectSeq([x \in 1..N |-> <<row, x - 1>>],
                                LAMBDA d : d[2] # col /\ holds(d))
      colConflicts == SelectSeq([x \in 1..N |-> <<x - 1, col>>],
                                LAMBDA d : d[1] # row /\ holds(d))
      boxConflicts == SelectSeq([k \in 1..(BOX * BOX) |->
                                   <<boxStart(row) + ((k - 1) \div BOX),
                                     boxStart(col) + ((k - 1) % BOX)>>],
                                LAMBDA d : (d[1] # row \/ d[2] # col) /\ holds(d))
  IN rowConflicts \o colConflicts \o boxConflicts

\* the list getConflictingCells returns: row, then column, then box
getConflictingCells(row, col, num) ==
  LET holds(d) == grid[d[1]][d[2]] = num
      rowConflicts == SelectSeq([x \in 1..N |-> <<row, x - 1>>],
                                LAMBDA d : d[2] # col /\ holds(d))
      colConflicts == SelectSeq([x \in 1..N |-> <<x - 1, col>>],
                                LAMBDA d : d[1] # row /\ holds(d))
      boxConflicts == SelectSeq([k \in 1..(BOX * BOX) |->
                                   <<boxStart(row) + ((k - 1) \div BOX),
                                     boxStart(col) + ((k - 1) % BOX)>>],
                                LAMBDA d : (d[1] # row \/ d[2] # col) /\ holds(d))
  IN IF grid[row][col] = 0 \/ grid[row][col] # num THEN <<>>
     ELSE rowConflicts \o colConflicts \o boxConflicts

isGivenCell(row, col) == initialGrid[row][col] # 0

isCorrectMove(row, col, num) == solution # Null /\ solution[row][col] = num

getProgressFilled == Cardinality({k \in 0..(N * N - 1) : grid[k \div N][k % N] # 0})

\* the cells getHint collects: the empty cells in row-major order
emptyCells ==
  LET E == {k \in 0..(N * N - 1) : grid[k \div N][k % N] = 0}
      at(i) == CHOOSE k \in E : Cardinality({m \in E : m < k}) = i - 1
  IN [i \in 1..Cardinality(E) |-> <<at(i) \div N, at(i) % N>>]

Hint(row, col, value, reason) ==
  [row |-> row, col |-> col, value |-> value, reason |-> reason]

\* getHint returning null, and getHint leaving by a TypeError (the read of
\* this.solution[row] when this.solution is null)
NullHint == Hint(-1, -1, 0, "null")
HintTypeError == Hint(-1, -1, 0, "TypeError")

\* variant: the last cell with one possible value is returned
getHint_LastForced ==
  LET cells == emptyCells
      forced == {i \in 1..Len(cells) :
                   Len(getPossibleValues(cells[i][1], cells[i][2])) = 1}
  IN IF Len(cells) = 0 THEN {NullHint}
     ELSE IF forced # {}
     THEN LET i == CHOOSE i \in forced : \A j \in forced : i >= j
          IN {Hint(cells[i][1], cells[i][2],
                   getPossibleValues(cells[i][1], cells[i][2])[1],
                   "Only one possible value")}
     ELSE {IF solution = Null THEN HintTypeError
           ELSE Hint(cells[i][1], cells[i][2], solution[cells[i][1]][cells[i][2]],
                     "Random hint") : i \in 1..Len(cells)}

\* the results getHint can return: one result, or one per value of
\* Math.floor(Math.random() * emptyCells.length)
getHint ==
  LET cells == emptyCells
      forced == {i \in 1..Len(cells) :
                   Len(getPossibleValues(cells[i][1], cells[i][2])) = 1}
  IN IF Len(cells) = 0 THEN {NullHint}
     ELSE IF forced # {}
     THEN LET i == CHOOSE i \in forced : \A j \in forced : i <= j
          IN {Hint(cells[i][1], cells[i][2],
                   getPossibleValues(cells[i][1], cells[i][2])[1],
                   "Only one possible value")}
     ELSE {IF solution = Null THEN HintTypeError
           ELSE Hint(cells[i][1], cells[i][2], solution[cells[i][1]][cells[i][2]],
                     "Random hint") : i \in 1..Len(cells)}

Ret(op, success, error) == [op |-> op, success |-> success, error |-> error]

(***************************************************************************)
(* The state after new SudokuEngine() / new SudokooApp's field setup.      *)
(***************************************************************************)
zeroGrid == [row \in Idx |-> [col \in Idx |-> 0]]

\* no call of the solver, generator or scanner was made yet
NoRun == [fn |-> "none", status |-> "idle"]

\* the constructor builds three arrays; the caller holds none of the session's
newRefs ==
  [grid |-> 1, solution |-> 2, initialGrid |-> 3,
   puzzleArg |-> 0, solutionArg |-> 0, returned |-> 0]

Init ==
  /\ grid = zeroGrid
  /\ solution = zeroGrid
  /\ initialGrid = zeroGrid
  /\ pencilMarks = emptyMarks
  /\ selectedCell = NoCell
  /\ pencilMode = FALSE
  /\ timer = FALSE
  /\ puzzle = zeroGrid
  /\ ret = Ret("constructor", TRUE, "null")
  /\ refs = newRefs
  /\ run = NoRun

\* the session is used after init (SudokooApp.init calls startNewGame)
Started == ret.op # "constructor"

\* engine.init(p, s)
EngineInit(p, s) ==
  /\ grid' = deepCopy(p)
  /\ initialGrid' = deepCopy(p)
  /\ solution' = IF s # Null THEN deepCopy(s) ELSE solvedCopy[p]
  /\ pencilMarks' = emptyMarks
  /\ puzzle' = p
  /\ ret' = Ret("init", TRUE, "null")
  /\ UNCHANGED <<appVars, refs, run>>

\* variant: placeNumber(row, col, 0) reports success without clearing the cell
placeNumberOutcome_EraseNoop(row, col, num) ==
  IF initialGrid[row][col] # 0
  THEN [grid |-> grid, pencilMarks |-> pencilMarks,
        success |-> FALSE, error |-> "Cannot modify given numbers"]
  ELSE IF num = 0
  THEN [grid |-> grid, pencilMarks |-> pencilMarks,
        success |-> TRUE, error |-> "null"]
  ELSE IF isValidMove(row, col, num)
  THEN [grid |-> [grid EXCEPT ![row][col] = num],
        pencilMarks |-> updatePencilMarks(clearPencilMarksForCell(pencilMarks, row, col),
                                          row, col, num),
        success |-> TRUE, error |-> "null"]
  ELSE [grid |-> grid, pencilMarks |-> pencilMarks,
        success |-> FALSE, error |-> "Invalid move"]

\* variant: the given-cell check is missing
placeNumberOutcome_NoGivenCheck(row, col, num) ==
  IF num = 0
  THEN [grid |-> [grid EXCEPT ![row][col] = 0], pencilMarks |-> pencilMarks,
        success |-> TRUE, error |-> "null"]
  ELSE IF isValidMove(row, col, num)
  THEN [grid |-> [grid EXCEPT ![row][col] = num],
        pencilMarks |-> updatePencilMarks(clearPencilMarksForCell(pencilMarks, row, col),
                                          row, col, num),
        success |-> TRUE, error |-> "null"]
  ELSE [grid |-> grid, pencilMarks |-> pencilMarks,
        success |-> FALSE, error |-> "Invalid move"]

\* variant: the marks are pruned before the move is validated
placeNumberOutcome_PruneFirst(row, col, num) ==
  IF initialGrid[row][col] # 0
  THEN [grid |-> grid, pencilMarks |-> pencilMarks,
        success |-> FALSE, error |-> "Cannot modify given numbers"]
  ELSE IF num = 0
  THEN [grid |-> [grid EXCEPT ![row][col] = 0], pencilMarks |-> pencilMarks,
        success |-> TRUE, error |-> "null"]
  ELSE IF isValidMove(row, col, num)
  THEN [grid |-> [grid EXCEPT ![row][col] = num],
        pencilMarks |-> updatePencilMarks(clearPencilMarksForCell(pencilMarks, row, col),
                                          row, col, num),
        success |-> TRUE, error |-> "null"]
  ELSE [grid |-> grid, pencilMarks |-> updatePencilMarks(pencilMarks, row, col, num),
        success |-> FALSE, error |-> "Invalid move"]

\* variant: clearing a cell also clears its marks
placeNumberOutcome_EraseClearsMarks(row, col, num) ==
  IF initialGrid[row][col] # 0
  THEN [grid |-> grid, pencilMarks |-> pencilMarks,
        success |-> FALSE, error |-> "Cannot modify given numbers"]
  ELSE IF num = 0
  THEN [grid |-> [grid EXCEPT ![row][col] = 0],
        pencilMarks |-> clearPencilMarksForCell(pencilMarks, row, col),
        success |-> TRUE, error |-> "null"]
  ELSE IF isValidMove(row, col, num)
  THEN [grid |-> [grid EXCEPT ![row][col] = num],
        pencilMarks |-> updatePencilMarks(clearPencilMarksForCell(pencilMarks, row, col),
                                          row, col, num),
        success |-> TRUE, error |-> "null"]
  ELSE [grid |-> grid, pencilMarks |-> pencilMarks,
        success |-> FALSE, error |-> "Invalid move"]

\* what placeNumber(row, col, num) returns and the state it leaves
placeNumberOutcome(row, col, num) ==
  IF initialGrid[row][col] # 0
  THEN [grid |-> grid, pencilMarks |-> pencilMarks,
        success |-> FALSE, error |-> "Cannot modify given numbers"]
  ELSE IF num = 0
  THEN [grid |-> [grid EXCEPT ![row][col] = 0], pencilMarks |-> pencilMarks,
        success |-> TRUE, error |-> "null"]
  ELSE IF isValidMove(row, col, num)
  THEN [grid |-> [grid EXCEPT ![row][col] = num],
        pencilMarks |-> updatePencilMarks(clearPencilMarksForCell(pencilMarks, row, col),
                                          row, col, num),
        success |-> TRUE, error |-> "null"]
  ELSE [grid |-> grid, pencilMarks |-> pencilMarks,
        success |-> FALSE, error |-> "Invalid move"]

PlaceNumber(row, col, num) ==
  /\ Started
  /\ LET o == placeNumberOutcome(row, col, num)
     IN /\ grid' = o.grid
        /\ pencilMarks' = o.pencilMarks
        /\ ret' = Ret("placeNumber", o.success, o.error)
  /\ UNCHANGED <<initialGrid, solution, puzzle, refs, run, appVars>>

\* variant: the mark is added whatever the cell holds
addPencilMarkOutcome_NoEmptyCheck(pm, row, col, num) ==
  [pencilMarks |-> [pm EXCEPT ![row][col] = @ \cup {num}], value |-> TRUE]

\* what addPencilMark(row, col, num) returns and the marks it leaves
addPencilMarkOutcome(pm, row, col, num) ==
  IF grid[row][col] = 0
  THEN [pencilMarks |-> [pm EXCEPT ![row][col] = @ \cup {num}], value |-> TRUE]
  ELSE [pencilMarks |-> pm, value |-> FALSE]

AddPencilMark(row, col, num) ==
  /\ Started
  /\ LET o == addPencilMarkOutcome(pencilMarks, row, col, num)
     IN /\ pencilMarks' = o.pencilMarks
        /\ ret' = Ret("addPencilMark", o.value, "null")
  /\ UNCHANGED <<grid, initialGrid, solution, puzzle, refs, run, appVars>>

RemovePencilMark(row, col, num) ==
  /\ Started
  /\ pencilMarks' = removePencilMark(pencilMarks, row, col, num)
  /\ ret' = Ret("removePencilMark", TRUE, "null")
  /\ UNCHANGED <<grid, initialGrid, solution, puzzle, refs, run, appVars>>

\* what togglePencilMark(row, col, num) returns and the marks it leaves
togglePencilMarkOutcome(row, col, num) ==
  IF num \in pencilMarks[row][col]
  THEN [pencilMarks |-> removePencilMark(pencilMarks, row, col, num), value |-> FALSE]
  ELSE [pencilMarks |-> addPencilMarkOutcome(pencilMarks, row, col, num).pencilMarks,
        value |-> TRUE]

TogglePencilMark(row, col, num) ==
  /\ Started
  /\ LET o == togglePencilMarkOutcome(row, col, num)
     IN /\ pencilMarks' = o.pencilMarks
        /\ ret' = Ret("togglePencilMark", o.value, "null")
  /\ UNCHANGED <<grid, initialGrid, solution, puzzle, refs, run, appVars>>

\* the marks autoFillPencilMarks leaves: the possible values of every empty cell
autoFillMarks ==
  [row \in Idx |-> [col \in Idx |->
     IF grid[row][col] = 0
     THEN LET possible == getPossibleValues(row, col)
          IN {possible[k] : k \in 1..Len(possible)}
     ELSE pencilMarks[row][col]]]

AutoFillPencilMarks ==
  /\ Started
  /\ pencilMarks' = autoFillMarks
  /\ ret' = Ret("autoFillPencilMarks", TRUE, "null")
  /\ UNCHANGED <<grid, initialGrid, solution, puzzle, refs, run, appVars>>

\* variant: reset leaves the pencil marks
Reset_KeepMarks ==
  /\ Started
  /\ grid' = deepCopy(initialGrid)
  /\ pencilMarks' = pencilMarks
  /\ ret' = Ret("reset", TRUE, "null")
  /\ UNCHANGED <<initialGrid, solution, puzzle, refs, run, appVars>>

\* variant: reset empties the grid instead of restoring the givens
Reset_ToZero ==
  /\ Started
  /\ grid' = zeroGrid
  /\ pencilMarks' = emptyMarks
  /\ ret' = Ret("reset", TRUE, "null")
  /\ UNCHANGED <<initialGrid, solution, puzzle, refs, run, appVars>>

Reset ==
  /\ Started
  /\ grid' = deepCopy(initialGrid)
  /\ pencilMarks' = emptyMarks
  /\ ret' = Ret("reset", TRUE, "null")
  /\ UNCHANGED <<initialGrid, solution, puzzle, refs, run, appVars>>

(***************************************************************************)
(* SudokooApp: the handlers that drive the engine.  The DOM updates        *)
(* (updateCell, updateStats, highlightRelatedCells, showStatus) hold no    *)
(* game state and are left out.                                            *)
(***************************************************************************)
SelectCell(row, col) ==
  /\ Started
  /\ selectedCell' = <<row, col>>
  /\ ret' = Ret("selectCell", TRUE, "null")
  /\ UNCHANGED <<engineVars, puzzle, refs, run, pencilMode, timer>>

DeselectCell ==
  /\ Started
  /\ selectedCell' = NoCell
  /\ ret' = Ret("deselectCell", TRUE, "null")
  /\ UNCHANGED <<engineVars, puzzle, refs, run, pencilMode, timer>>

TogglePencilMode ==
  /\ Started
  /\ pencilMode' = ~pencilMode
  /\ ret' = Ret("togglePencilMode", TRUE, "null")
  /\ UNCHANGED <<engineVars, puzzle, refs, run, selectedCell, timer>>

\* inputNumber(num); ret.error is the status the handler shows
InputNumber(num) ==
  /\ Started
  /\ pencilMode => num \in MarkInputs
  /\ IF selectedCell = NoCell
     THEN /\ ret' = Ret("inputNumber", FALSE, "Please select a cell first")
          /\ UNCHANGED <<engineVars, timer>>
     ELSE LET row == selectedCell[1]
              col == selectedCell[2]
          IN IF isGivenCell(row, col)
             THEN /\ ret' = Ret("inputNumber", FALSE, "Cannot modify given numbers")
                  /\ UNCHANGED <<engineVars, timer>>
             ELSE IF pencilMode
             THEN LET o == togglePencilMarkOutcome(row, col, num)
                  IN /\ pencilMarks' = o.pencilMarks
                     /\ ret' = Ret("inputNumber", TRUE,
                                   IF o.value THEN "Pencil mark added"
                                   ELSE "Pencil mark removed")
                     /\ UNCHANGED <<grid, initialGrid, solution, timer>>
             ELSE LET o == placeNumberOutcome(row, col, num)
                      solvedAfter ==
                        /\ \A r \in Idx, c \in Idx : o.grid[r][c] # 0
                        /\ isValidSolutionOn(o.grid)
                  IN /\ grid' = o.grid
                     /\ pencilMarks' = o.pencilMarks
                     /\ UNCHANGED <<initialGrid, solution>>
                     /\ IF o.success
                        THEN IF isCorrectMove(row, col, num)
                             THEN IF solvedAfter
                                  THEN /\ timer' = FALSE
                                       /\ ret' = Ret("inputNumber", TRUE, "Congratulations! You solved the puzzle!")
                                  ELSE /\ timer' = timer
                                       /\ ret' = Ret("inputNumber", TRUE, "Correct!")
                             ELSE /\ timer' = timer
                                  /\ ret' = Ret("inputNumber", TRUE, "Try again!")
                        ELSE /\ timer' = timer
                             /\ ret' = Ret("inputNumber", FALSE, o.error)
  /\ UNCHANGED <<puzzle, refs, run, selectedCell, pencilMode>>

EraseCell ==
  /\ Started
  /\ IF selectedCell = NoCell
     THEN /\ ret' = Ret("eraseCell", FALSE, "null")
          /\ UNCHANGED engineVars
     ELSE LET row == selectedCell[1]
              col == selectedCell[2]
          IN IF isGivenCell(row, col)
             THEN /\ ret' = Ret("eraseCell", FALSE, "Cannot modify given numbers")
                  /\ UNCHANGED engineVars
             ELSE IF pencilMode
             THEN /\ pencilMarks' = clearPencilMarksForCell(pencilMarks, row, col)
                  /\ ret' = Ret("eraseCell", TRUE, "Pencil marks cleared")
                  /\ UNCHANGED <<grid, initialGrid, solution>>
             ELSE LET o == placeNumberOutcome(row, col, 0)
                  IN /\ grid' = o.grid
                     /\ pencilMarks' = o.pencilMarks
                     /\ ret' = Ret("eraseCell", TRUE, "null")
                     /\ UNCHANGED <<initialGrid, solution>>
  /\ UNCHANGED <<puzzle, refs, run, appVars>>

\* the status showHint displays for the value v: `Hint: Try ${hint.value} ...`
hintStatus(v) ==
  IF v \in Digits
  THEN <<"Hint: Try 1", "Hint: Try 2", "Hint: Try 3", "Hint: Try 4", "Hint: Try 5",
         "Hint: Try 6", "Hint: Try 7", "Hint: Try 8", "Hint: Try 9">>[v]
  ELSE "Hint: Try 0"

\* showHint(): getHint, then selectCell on the hint's cell
ShowHint ==
  /\ Started
  /\ \E hint \in getHint :
        IF hint = HintTypeError
        THEN /\ ret' = Ret("showHint", FALSE, "TypeError")
             /\ UNCHANGED selectedCell
        ELSE IF hint = NullHint
        THEN /\ ret' = Ret("showHint", TRUE, "No hints available - puzzle is complete!")
             /\ UNCHANGED selectedCell
        ELSE /\ selectedCell' = <<hint.row, hint.col>>
             /\ ret' = Ret("showHint", TRUE, hintStatus(hint.value))
  /\ UNCHANGED <<engineVars, puzzle, refs, run, pencilMode, timer>>

\* showSolution(), confirmed: getSolution, then every cell of engine.grid is
\* overwritten; getSolution throws on a missing solution (null.map)
ShowSolution ==
  /\ Started
  /\ IF solution = Null
     THEN /\ ret' = Ret("showSolution", FALSE, "TypeError")
          /\ UNCHANGED <<grid, timer>>
     ELSE /\ grid' = [row \in Idx |-> [col \in Idx |-> deepCopy(solution)[row][col]]]
          /\ timer' = FALSE
          /\ ret' = Ret("showSolution", TRUE, "Solution revealed!")
  /\ UNCHANGED <<initialGrid, solution, pencilMarks, puzzle, refs, run, selectedCell, pencilMode>>

(***************************************************************************)
(* The engine's queries as calls: what each leaves in the engine's fields. *)
(* Only isValidSolution assigns to a field (this.grid, lines 179-181); the *)
(* others read.  ret.success is the boolean a query returns, if it is one. *)
(***************************************************************************)
IsValidSolution ==
  /\ Started
  /\ grid' = isValidSolutionRun.grid
  /\ ret' = Ret("isValidSolution", isValidSolutionRun.ok, "null")
  /\ UNCHANGED <<initialGrid, solution, pencilMarks, puzzle, refs, run, appVars>>

IsSolved ==
  /\ Started
  /\ IF \E row \in Idx, col \in Idx : grid[row][col] = 0
     THEN /\ grid' = grid
          /\ ret' = Ret("isSolved", FALSE, "null")
     ELSE /\ grid' = isValidSolutionRun.grid
          /\ ret' = Ret("isSolved", isValidSolutionRun.ok, "null")
  /\ UNCHANGED <<initialGrid, solution, pencilMarks, puzzle, refs, run, appVars>>

\* getStats(): getProgress, two counting loops, getTotalPencilMarks, isValidSolution
GetStats ==
  /\ Started
  /\ grid' = isValidSolutionRun.grid
  /\ ret' = Ret("getStats", isValidSolutionRun.ok, "null")
  /\ UNCHANGED <<initialGrid, solution, pencilMarks, puzzle, refs, run, appVars>>

GetProgress ==
  /\ Started
  /\ ret' = Ret("getProgress", getProgressFilled <= N * N, "null")
  /\ UNCHANGED <<engineVars, puzzle, refs, run, appVars>>

GetPossibleValues(row, col) ==
  /\ Started
  /\ ret' = Ret("getPossibleValues", Len(getPossibleValues(row, col)) > 0, "null")
  /\ UNCHANGED <<engineVars, puzzle, refs, run, appVars>>

GetConflictingCells(row, col, num) ==
  /\ Started
  /\ ret' = Ret("getConflictingCells", Len(getConflictingCells(row, col, num)) > 0, "null")
  /\ UNCHANGED <<engineVars, puzzle, refs, run, appVars>>

\* the list getHighlightedCells returns, as the set of its cells
getHighlightedCells(row, col) ==
  IF grid[row][col] = 0 THEN {}
  ELSE {d \in Idx \X Idx : grid[d[1]][d[2]] = grid[row][col]}

GetHighlightedCells(row, col) ==
  /\ Started
  /\ ret' = Ret("getHighlightedCells", getHighlightedCells(row, col) # {}, "null")
  /\ UNCHANGED <<engineVars, puzzle, refs, run, appVars>>

GetHint ==
  /\ Started
  /\ \E hint \in getHint :
        ret' = Ret("getHint", hint \notin {NullHint, HintTypeError}, hint.reason)
  /\ UNCHANGED <<engineVars, puzzle, refs, run, appVars>>

IsCorrectMove(row, col, num) ==
  /\ Started
  /\ ret' = Ret("isCorrectMove", isCorrectMove(row, col, num), "null")
  /\ UNCHANGED <<engineVars, puzzle, refs, run, appVars>>

IsGivenCell(row, col) ==
  /\ Started
  /\ ret' = Ret("isGivenCell", isGivenCell(row, col), "null")
  /\ UNCHANGED <<engineVars, puzzle, refs, run, appVars>>

Next ==
  \/ \E p \in Puzzles, s \in SolutionInputs : EngineInit(p, s)
  \/ \E c \in ActCells, num \in NumInputs : PlaceNumber(c[1], c[2], num)
  \/ \E c \in ActCells, num \in MarkInputs : TogglePencilMark(c[1], c[2], num)
  \/ AutoFillPencilMarks
  \/ Reset

Spec == Init /\ [][Next]_vars

\* the engine's operations, addPencilMark and removePencilMark called
\* directly among them
MarkNext ==
  \/ \E p \in Puzzles, s \in SolutionInputs : EngineInit(p, s)
  \/ \E c \in ActCells, num \in NumInputs : PlaceNumber(c[1], c[2], num)
  \/ \E c \in ActCells, num \in MarkInputs : AddPencilMark(c[1], c[2], num)
  \/ \E c \in ActCells, num \in MarkInputs : RemovePencilMark(c[1], c[2], num)
  \/ \E c \in ActCells, num \in MarkInputs : TogglePencilMark(c[1], c[2], num)
  \/ AutoFillPencilMarks
  \/ Reset

MarkSpec == Init /\ [][MarkNext]_vars

\* the values a caller may pass to placeNumber: any integer, values outside
\* 0..9 among them
WideInputs == (0 - 1)..(N + 1)

\* the engine called with any integer as the value to place
WideNext ==
  \/ \E p \in Puzzles, s \in SolutionInputs : EngineInit(p, s)
  \/ \E c \in ActCells, num \in WideInputs : PlaceNumber(c[1], c[2], num)
  \/ \E c \in ActCells, num \in MarkInputs : TogglePencilMark(c[1], c[2], num)
  \/ Reset

WideSpec == Init /\ [][WideNext]_vars

\* the game controller's handlers, next to direct calls of init and placeNumber
AppNext ==
  \/ \E p \in Puzzles, s \in SolutionInputs : EngineInit(p, s)
  \/ \E c \in ActCells, num \in NumInputs : PlaceNumber(c[1], c[2], num)
  \/ \E c \in ActCells : SelectCell(c[1], c[2])
  \/ DeselectCell
  \/ TogglePencilMode
  \/ \E num \in Digits : InputNumber(num)
  \/ EraseCell
  \/ ShowHint

AppSpec == Init /\ [][AppNext]_vars

\* the game controller's handlers with showSolution among them
RevealNext ==
  \/ \E p \in Puzzles, s \in SolutionInputs : EngineInit(p, s)
  \/ \E c \in ActCells, num \in NumInputs : PlaceNumber(c[1], c[2], num)
  \/ \E c \in ActCells : SelectCell(c[1], c[2])
  \/ DeselectCell
  \/ TogglePencilMode
  \/ \E num \in Digits : InputNumber(num)
  \/ EraseCell
  \/ ShowHint
  \/ ShowSolution

RevealSpec == Init /\ [][RevealNext]_vars

\* the engine's operations with its queries called in between
QueryNext ==
  \/ \E p \in Puzzles, s \in SolutionInputs : EngineInit(p, s)
  \/ \E c \in ActCells, num \in NumInputs : PlaceNumber(c[1], c[2], num)
  \/ \E c \in ActCells, num \in MarkInputs : TogglePencilMark(c[1], c[2], num)
  \/ AutoFillPencilMarks
  \/ Reset
  \/ IsValidSolution
  \/ IsSolved
  \/ GetStats
  \/ GetProgress
  \/ \E c \in ActCells : GetPossibleValues(c[1], c[2])
  \/ \E c \in ActCells, num \in MarkInputs : GetConflictingCells(c[1], c[2], num)
  \/ \E c \in ActCells : GetHighlightedCells(c[1], c[2])
  \/ GetHint
  \/ \E c \in ActCells, num \in MarkInputs : IsCorrectMove(c[1], c[2], num)
  \/ \E c \in ActCells : IsGivenCell(c[1], c[2])

QuerySpec == Init /\ [][QueryNext]_vars

(***************************************************************************)
(* The session with its arrays as objects.  refs names the array each      *)
(* engine field refers to and the arrays the caller holds: the two it      *)
(* passed to init and the one a getter returned last.  A write to a cell   *)
(* of an array reaches every field that refers to that array.  The values  *)
(* of the caller's own arrays are not kept.                                *)
(***************************************************************************)
\* an array object no holder in inUse refers to
Fresh(inUse) ==
  LET free == (1..(Cardinality(inUse) + 1)) \ inUse
  IN CHOOSE k \in free : \A m \in free : k <= m

\* variant: the array itself is handed on
deepCopyRef_Share(ref, inUse) == ref

\* the array deepCopy returns: grid.map(row => [...row]) builds a new outer
\* array with new rows
deepCopyRef(ref, inUse) == Fresh(inUse)

\* the field g, held as array ref, after array[target][c] = v
WriteCell(g, ref, target, c, v) ==
  IF ref = target /\ target # 0 THEN [g EXCEPT ![c[1]][c[2]] = v] ELSE g

\* init(p, s) with p and s arrays of the caller; sameArray: the caller
\* passes one array as puzzle and as solution
HeapInit(p, s, sameArray) ==
  /\ sameArray => s = p
  /\ LET kept == {refs.returned}
         a == Fresh(kept)
         b == IF s = Null THEN 0 ELSE IF sameArray THEN a ELSE Fresh(kept \cup {a})
         g == deepCopyRef(a, kept \cup {a, b})
         i == deepCopyRef(a, kept \cup {a, b, g})
         t == deepCopyRef(a, kept \cup {a, b, g, i})
         so == IF b # 0 THEN deepCopyRef(b, kept \cup {a, b, g, i})
               ELSE IF solvedCopy[p] = Null THEN 0
               ELSE deepCopyRef(t, kept \cup {a, b, g, i, t})
     IN refs' = [grid |-> g, solution |-> so, initialGrid |-> i,
                 puzzleArg |-> a, solutionArg |-> b, returned |-> refs.returned]
  /\ grid' = deepCopy(p)
  /\ initialGrid' = deepCopy(p)
  /\ solution' = IF s # Null THEN deepCopy(s) ELSE solvedCopy[p]
  /\ pencilMarks' = emptyMarks
  /\ puzzle' = p
  /\ ret' = Ret("init", TRUE, "null")
  /\ UNCHANGED <<appVars, run>>

\* placeNumber: the write this.grid[row][col] = num lands in the array
\* this.grid refers to
HeapPlaceNumber(row, col, num) ==
  /\ Started
  /\ LET o == placeNumberOutcome(row, col, num)
     IN /\ grid' = o.grid
        /\ pencilMarks' = o.pencilMarks
        /\ initialGrid' = IF o.success
                          THEN WriteCell(initialGrid, refs.initialGrid, refs.grid,
                                         <<row, col>>, num)
                          ELSE initialGrid
        /\ solution' = IF o.success
                       THEN WriteCell(solution, refs.solution, refs.grid,
                                      <<row, col>>, num)
                       ELSE solution
        /\ ret' = Ret("placeNumber", o.success, o.error)
  /\ UNCHANGED <<puzzle, refs, run, appVars>>

HeapReset ==
  /\ Started
  /\ grid' = deepCopy(initialGrid)
  /\ refs' = [refs EXCEPT !.grid =
                deepCopyRef(refs.initialGrid,
                            {refs[f] : f \in DOMAIN refs \ {"grid"}})]
  /\ pencilMarks' = emptyMarks
  /\ ret' = Ret("reset", TRUE, "null")
  /\ UNCHANGED <<initialGrid, solution, puzzle, appVars, run>>

\* getGrid(), getSolution(), getInitialGrid(): the caller keeps the array
\* returned; getSolution throws on a missing solution
HeapGet(field) ==
  /\ Started
  /\ IF refs[field] = 0
     THEN /\ ret' = Ret(field, FALSE, "TypeError")
          /\ UNCHANGED refs
     ELSE /\ ret' = Ret(field, TRUE, "null")
          /\ refs' = [refs EXCEPT !.returned =
                        deepCopyRef(refs[field],
                                    {refs[f] : f \in DOMAIN refs \ {"returned"}})]
  /\ UNCHANGED <<engineVars, puzzle, appVars, run>>

\* the caller assigns array[row][col] = v in one of the arrays it holds
CallerWrite(holder, row, col, v) ==
  /\ Started
  /\ refs[holder] # 0
  /\ grid' = WriteCell(grid, refs.grid, refs[holder], <<row, col>>, v)
  /\ initialGrid' = WriteCell(initialGrid, refs.initialGrid, refs[holder], <<row, col>>, v)
  /\ solution' = WriteCell(solution, refs.solution, refs[holder], <<row, col>>, v)
  /\ ret' = Ret("callerWrite", TRUE, holder)
  /\ UNCHANGED <<pencilMarks, puzzle, refs, run, appVars>>

HeapNext ==
  \/ \E p \in Puzzles, s \in SolutionInputs, sameArray \in BOOLEAN : HeapInit(p, s, sameArray)
  \/ \E c \in ActCells, num \in NumInputs : HeapPlaceNumber(c[1], c[2], num)
  \/ HeapReset
  \/ \E field \in {"grid", "solution", "initialGrid"} : HeapGet(field)
  \/ \E holder \in {"puzzleArg", "solutionArg", "returned"}, c \in ActCells,
        v \in {0} \cup MarkInputs : CallerWrite(holder, c[1], c[2], v)

HeapSpec == Init /\ [][HeapNext]_vars

(***************************************************************************)
(* The backtracking searches, one placement or one undo at a time:         *)
(* fillGrid of the generator, solveRecursive of the engine and             *)
(* solveRecursive of the scan service.  run.stack holds one frame per      *)
(* activation that is inside its loop over the candidates: the cell it     *)
(* fills (row * 9 + col) and the candidates it has tried so far.           *)
(***************************************************************************)
\* generator.js: may num go to (row, col) of g
isValidPlacement(g, row, col, num) ==
  IF \E x \in Idx : g[row][x] = num THEN FALSE
  ELSE IF \E x \in Idx : g[x][col] = num THEN FALSE
  ELSE IF \E i \in boxStart(row)..(boxStart(row) + BOX - 1) :
          \E j \in boxStart(col)..(boxStart(col) + BOX - 1) : g[i][j] = num THEN FALSE
  ELSE TRUE

\* variant: the row scan is missing
lambda_isValidMove_NoRow(g, row, col, num) ==
  IF \E x \in Idx : g[x][col] = num THEN FALSE
  ELSE IF \E i \in boxStart(row)..(boxStart(row) + BOX - 1) :
          \E j \in boxStart(col)..(boxStart(col) + BOX - 1) : g[i][j] = num THEN FALSE
  ELSE TRUE

\* lambda/index.js: isValidMove(grid, row, col, num)
lambda_isValidMove(g, row, col, num) ==
  IF \E x \in Idx : g[row][x] = num THEN FALSE
  ELSE IF \E x \in Idx : g[x][col] = num THEN FALSE
  ELSE IF \E i \in boxStart(row)..(boxStart(row) + BOX - 1) :
          \E j \in boxStart(col)..(boxStart(col) + BOX - 1) : g[i][j] = num THEN FALSE
  ELSE TRUE

\* variant: no copy is made
lambdaCopy_Alias(heap, ref) == [heap |-> heap, ref |-> ref]

\* grid.map(row => [...row]): a new array of new rows
lambdaCopy(heap, ref) ==
  LET new == Cardinality(DOMAIN heap) + 1
  IN [heap |-> heap @@ (new :> deepCopy(heap[ref])), ref |-> new]

SolverFns == {"solveRecursive", "lambda.solveRecursive"}

\* the legality test each search applies
searchIsValid(fn, g, row, col, num) ==
  CASE fn = "fillGrid" -> isValidPlacement(g, row, col, num)
    [] fn = "solveRecursive" -> isValidMoveForGrid(g, row, col, num)
    [] fn = "lambda.solveRecursive" -> lambda_isValidMove(g, row, col, num)

\* the grids handed to the solvers.  1: one earlier choice has to be undone;
\* 2: a duplicate among the givens; 3: consistent givens without completion;
\* 4: two completions; 5: complete; 6: three empty cells; 7: consistent
\* givens without completion, found out after a placement; 8: two wrong
\* choices to undo
SolverTable ==
  << Overwrite(Base, Blank({<<0,0>>, <<0,2>>, <<1,2>>, <<4,0>>})),
     PuzzleTable[4],
     PuzzleTable[5],
     Overwrite(Base, Blank({<<3,5>>, <<3,8>>, <<4,5>>, <<4,8>>})),
     Base,
     PuzzleTable[3],
     Overwrite(Base, Blank({<<0,0>>, <<4,7>>, <<8,8>>}) @@ (<<8,7>> :> 9)),
     Overwrite(Base, Blank({<<0,2>>, <<1,4>>, <<6,1>>, <<6,8>>, <<8,1>>, <<8,8>>})) >>

SolverInputs == {SolverTable[i] : i \in 1..NumSolverInputs}

\* the cells fillGrid has not reached yet: the last FillCells cells
FillOpen == {k \in 0..(N * N - 1) : k >= N * N - FillCells}

\* fillGrid on its way from the empty grid: every activation so far drew,
\* as the first candidate of its shuffle, the value Base has in its cell
FillPrefixGrid ==
  [row \in Idx |-> [col \in Idx |->
     IF (row * N + col) \in FillOpen THEN 0 ELSE Base[row][col]]]

FillPrefixStack ==
  [k \in 1..(N * N - FillCells) |->
     [cell |-> k - 1, tried |-> {Base[(k - 1) \div N][(k - 1) % N]}]]

Frame(g) == [cell |-> firstEmpty(g), tried |-> {}]

\* the candidates the innermost activation can still place
searchCandidates ==
  LET f == run.stack[Len(run.stack)]
  IN {num \in Digits \ f.tried :
        searchIsValid(run.fn, run.grid, f.cell \div N, f.cell % N, num)}

Searching ==
  /\ run.fn \in SolverFns \cup {"fillGrid"}
  /\ run.status = "running"

\* generateCompletePuzzle: fillGrid(grid) on the empty grid, up to the
\* activation of the first cell of FillOpen
FillGridStart ==
  /\ ~Searching
  /\ run' = [fn |-> "fillGrid", input |-> zeroGrid, grid |-> FillPrefixGrid,
             stack |-> Append(FillPrefixStack, Frame(FillPrefixGrid)),
             status |-> "running"]
  /\ UNCHANGED <<engineVars, appVars, puzzle, ret, refs>>

\* solvePuzzle(g): the copy, and solveRecursive up to its first loop; g is
\* the caller's array argRef, the search writes to the array workRef
SolveStart(fn, g) ==
  /\ ~Searching
  /\ run' = [fn |-> fn, input |-> g, grid |-> deepCopy(g),
             argRef |-> 1,
             workRef |-> IF fn = "solveRecursive" THEN deepCopyRef(1, {1})
                         ELSE lambdaCopy((1 :> g), 1).ref,
             stack |-> IF \A row \in Idx, col \in Idx : g[row][col] # 0
                       THEN <<>> ELSE <<Frame(g)>>,
             status |-> IF \A row \in Idx, col \in Idx : g[row][col] # 0
                        THEN "true" ELSE "running"]
  /\ UNCHANGED <<engineVars, appVars, puzzle, ret, refs>>

\* variant: the activation one level up starts its loop over again
searchUndo_Retry(r) ==
  LET up == SubSeq(r.stack, 1, Len(r.stack) - 1)
  IN IF up = <<>> THEN [r EXCEPT !.stack = up, !.status = "false"]
     ELSE [r EXCEPT !.stack = [up EXCEPT ![Len(up)].tried = {}],
                    !.grid[up[Len(up)].cell \div N][up[Len(up)].cell % N] = 0]

\* variant: a failed activation makes the whole search fail
searchUndo_GiveUp(r) ==
  [r EXCEPT !.stack = <<>>, !.status = "false"]

\* variant: the caller of a failed activation leaves its cell as it is
searchUndo_NoReset(r) ==
  LET up == SubSeq(r.stack, 1, Len(r.stack) - 1)
  IN IF up = <<>> THEN [r EXCEPT !.stack = up, !.status = "false"]
     ELSE [r EXCEPT !.stack = up]

\* the innermost activation returns false: the search is over if it was the
\* outermost, else its caller resets its own cell to 0 and goes on
searchUndo(r) ==
  LET up == SubSeq(r.stack, 1, Len(r.stack) - 1)
  IN IF up = <<>> THEN [r EXCEPT !.stack = up, !.status = "false"]
     ELSE [r EXCEPT !.stack = up,
                    !.grid[up[Len(up)].cell \div N][up[Len(up)].cell % N] = 0]

\* variant: the activation returns true without recursing
searchPlace_NoRecursion(r, num) ==
  LET top == Len(r.stack)
      c == r.stack[top].cell
  IN [r EXCEPT !.grid[c \div N][c % N] = num, !.stack = <<>>, !.status = "true"]

\* the innermost activation places num and recurses: if no cell is empty the
\* recursion returns true and so does every activation, else the recursion
\* enters its own loop
searchPlace(r, num) ==
  LET top == Len(r.stack)
      c == r.stack[top].cell
      g == [r.grid EXCEPT ![c \div N][c % N] = num]
  IN IF \A row \in Idx, col \in Idx : g[row][col] # 0
     THEN [r EXCEPT !.grid = g, !.stack = <<>>, !.status = "true"]
     ELSE [r EXCEPT !.grid = g,
                    !.stack = Append([@ EXCEPT ![top].tried = @ \cup {num}], Frame(g))]

\* variant: the solvers try the candidates from 9 down
SearchPlace_Descending ==
  /\ Searching
  /\ \E num \in searchCandidates :
        /\ run.fn \in SolverFns => \A m \in searchCandidates : num >= m
        /\ run' = searchPlace(run, num)
  /\ UNCHANGED <<engineVars, appVars, puzzle, ret, refs>>

\* one candidate that passes the legality test is placed: any untried one
\* in fillGrid (the order is the outcome of shuffleArray), the smallest one
\* in the solvers
SearchPlace ==
  /\ Searching
  /\ \E num \in searchCandidates :
        /\ run.fn \in SolverFns => \A m \in searchCandidates : num <= m
        /\ run' = searchPlace(run, num)
  /\ UNCHANGED <<engineVars, appVars, puzzle, ret, refs>>

\* no candidate is left for the innermost activation
SearchUndo ==
  /\ Searching
  /\ searchCandidates = {}
  /\ run' = searchUndo(run)
  /\ UNCHANGED <<engineVars, appVars, puzzle, ret, refs>>

\* what solvePuzzle returns once solveRecursive has returned
solvePuzzleReturn == IF run.status = "true" THEN run.grid ELSE Null

SearchNext ==
  \/ FillGridStart
  \/ \E fn \in SolverFns, g \in SolverInputs : SolveStart(fn, g)
  \/ SearchPlace
  \/ SearchUndo

SearchSpec == Init /\ [][SearchNext]_vars

\* the session in use while the solvers run on grids of their own
EquivNext ==
  \/ \E p \in Puzzles, s \in SolutionInputs : EngineInit(p, s)
  \/ \E c \in ActCells, num \in NumInputs : PlaceNumber(c[1], c[2], num)
  \/ \E fn \in SolverFns, g \in SolverInputs : SolveStart(fn, g)
  \/ SearchPlace
  \/ SearchUndo

EquivSpec == Init /\ [][EquivNext]_vars

\* the calls run to completion: a search that can take a step takes it
SearchLive == SearchSpec /\ WF_vars(SearchPlace \/ SearchUndo)

(***************************************************************************)
(* SudokuGenerator: createPuzzle and generateFreshPuzzle.  The grids live  *)
(* in a heap (array object -> contents), so that a write through one       *)
(* reference shows through every other reference to the same array.        *)
(***************************************************************************)
Levels == {"easy", "medium", "hard", "expert"}

\* the difficulty arguments: the four levels, strings that name nothing, and
\* names every object inherits from Object.prototype
Difficulties == Levels \cup {"Easy", "foo", "constructor", "toString"}

Inherited == {"constructor", "toString", "hasOwnProperty", "valueOf", "__proto__"}

\* this.difficulty_settings[difficulty]: an own entry, an inherited member
\* of the object, or undefined
difficulty_settings(difficulty) ==
  CASE difficulty = "easy" -> [truthy |-> TRUE, clues |-> 45 - 50, name |-> "Easy"]
    [] difficulty = "medium" -> [truthy |-> TRUE, clues |-> 35 - 40, name |-> "Medium"]
    [] difficulty = "hard" -> [truthy |-> TRUE, clues |-> 25 - 30, name |-> "Hard"]
    [] difficulty = "expert" -> [truthy |-> TRUE, clues |-> 17 - 22, name |-> "Expert"]
    [] difficulty = "constructor" -> [truthy |-> TRUE, clues |-> 0, name |-> "Object"]
    [] difficulty \in Inherited \ {"constructor"} ->
         [truthy |-> TRUE, clues |-> 0, name |-> difficulty]
    [] OTHER -> [truthy |-> FALSE, clues |-> 0, name |-> ""]

\* the value of difficulty after the fallback of createPuzzle
createPuzzleLevel(difficulty) ==
  IF ~difficulty_settings(difficulty).truthy THEN "medium" ELSE difficulty

\* targetClues, r being Math.floor(Math.random() * 6)
targetClues(difficulty, r) ==
  IF difficulty = "easy" THEN r + 45
  ELSE IF difficulty = "medium" THEN r + 35
  ELSE IF difficulty = "hard" THEN r + 25
  ELSE r + 17

\* the outcomes of shuffleArray(positions) that the model follows: position
\* k of the shuffled list is cell (a * k + b) mod 81, for the pairs <<a, b>>
ShuffleTable == << <<1, 0>>, <<80, 80>>, <<2, 5>>, <<7, 11>>, <<40, 3>> >>

Shuffles == {ShuffleTable[i] : i \in 1..NumShuffles}

shuffledPositions(sh) ==
  [k \in 1..(N * N) |-> (sh[1] * (k - 1) + sh[2]) % (N * N)]

\* variant: at most 60 empty cells
hasUniqueSolution_AtMost60(g) ==
  Cardinality({c \in Idx \X Idx : g[c[1]][c[2]] = 0}) <= 60

\* hasUniqueSolution: at most 64 empty cells
hasUniqueSolution(g) ==
  Cardinality({c \in Idx \X Idx : g[c[1]][c[2]] = 0}) <= 64

\* variant: both the outer array and the rows are the caller's
createPuzzleCopy_Alias(heap, ref) == [heap |-> heap, ref |-> ref]

\* variant: the rows of the copy are the columns of the solution
createPuzzleCopy_Transposed(heap, ref) ==
  [heap |-> heap @@ (2 :> [row \in Idx |-> [col \in Idx |-> heap[ref][col][row]]]),
   ref |-> 2]

\* solution.map(row => [...row]): a new array of new rows
createPuzzleCopy(heap, ref) ==
  [heap |-> heap @@ (2 :> deepCopy(heap[ref])), ref |-> 2]

\* variant: the loop goes on while currentClues >= targetClues
createPuzzleVisit_OneMore(st, p, target, pos) ==
  IF st.stopped \/ st.currentClues < target THEN [st EXCEPT !.stopped = TRUE]
  ELSE LET row == pos \div N
           col == pos % N
           backup == st.heap[p][row][col]
           cleared == [st.heap EXCEPT ![p][row][col] = 0]
       IN IF hasUniqueSolution(cleared[p])
          THEN [st EXCEPT !.heap = cleared, !.currentClues = @ - 1]
          ELSE [st EXCEPT !.heap = [cleared EXCEPT ![p][row][col] = backup]]

\* one round of the removal loop, for the position pos of the shuffled list;
\* p is the array the local variable puzzle refers to
createPuzzleVisit(st, p, target, pos) ==
  IF st.stopped \/ st.currentClues <= target THEN [st EXCEPT !.stopped = TRUE]
  ELSE LET row == pos \div N
           col == pos % N
           backup == st.heap[p][row][col]
           cleared == [st.heap EXCEPT ![p][row][col] = 0]
       IN IF hasUniqueSolution(cleared[p])
          THEN [st EXCEPT !.heap = cleared, !.currentClues = @ - 1]
          ELSE [st EXCEPT !.heap = [cleared EXCEPT ![p][row][col] = backup]]

RECURSIVE createPuzzleLoop(_, _, _, _, _, _)
\* the rounds for positions[k..last]
createPuzzleLoop(st, p, target, positions, k, last) ==
  IF k > last THEN st
  ELSE LET visited == createPuzzleVisit(st, p, target, positions[k])
       IN IF visited.stopped THEN visited
          ELSE createPuzzleLoop(visited, p, target, positions, k + 1, last)

RECURSIVE createPuzzleRounds(_, _, _, _, _)
\* the rounds for the positions from the j-th group of nine on
createPuzzleRounds(st, p, target, positions, j) ==
  IF j > N THEN st
  ELSE LET visited == createPuzzleLoop(st, p, target, positions, (j - 1) * N + 1, j * N)
       IN IF visited.stopped THEN visited
          ELSE createPuzzleRounds(visited, p, target, positions, j + 1)

\* createPuzzle(solution, difficulty) on the heap, the solution being array
\* 1; r and sh are the outcomes of Math.random and of shuffleArray
createPuzzle(heap, difficulty, r, sh) ==
  LET copy == createPuzzleCopy(heap, 1)
      target == targetClues(createPuzzleLevel(difficulty), r)
      st == createPuzzleRounds(
              [heap |-> copy.heap, currentClues |-> N * N, stopped |-> FALSE],
              copy.ref, target, shuffledPositions(sh), 1)
  IN [heap |-> st.heap, puzzle |-> copy.ref, targetClues |-> target,
      warned |-> ~difficulty_settings(difficulty).truthy]

\* generateFreshPuzzle(difficulty), from the return of fillGrid on: the
\* record it returns, with the arrays behind its puzzle and solution fields
GenerateFreshPuzzle(difficulty, r, sh) ==
  /\ run.fn = "fillGrid"
  /\ run.status = "true"
  /\ LET made == createPuzzle((1 :> run.grid), difficulty, r, sh)
     IN run' = [fn |-> "generateFreshPuzzle", status |-> "returned",
                input |-> run.grid, difficulty |-> difficulty, shuffle |-> sh,
                targetClues |-> made.targetClues, warned |-> made.warned,
                heap |-> made.heap, puzzle |-> made.puzzle, solution |-> 1,
                name |-> IF difficulty_settings(difficulty).truthy
                            /\ difficulty_settings(difficulty).name # ""
                         THEN difficulty_settings(difficulty).name ELSE "Medium"]
  /\ UNCHANGED <<engineVars, appVars, puzzle, ret, refs>>

GenNext ==
  \/ FillGridStart
  \/ SearchPlace
  \/ SearchUndo
  \/ \E difficulty \in Difficulties, r \in 0..5, sh \in Shuffles :
        GenerateFreshPuzzle(difficulty, r, sh)

GenSpec == Init /\ [][GenNext]_vars

(***************************************************************************)
(* The scan service (src/lambda/index.js).  What the recognition step      *)
(* hands over is any JSON value: a value is kept with the answers of       *)
(* Array.isArray and Number.isInteger on it.  Arrays live in a heap.       *)
(***************************************************************************)
\* the scan that reads the grid g
ScanOf(g) ==
  [isArray |-> TRUE,
   rows |-> [i \in 1..N |->
               [isArray |-> TRUE,
                cells |-> [j \in 1..N |-> [isInteger |-> TRUE, v |-> g[i - 1][j - 1]]]]]]

\* the ways a scan of g can be off
ScanDefects ==
  {[kind |-> "none", row |-> 0, col |-> 0]}
    \cup {[kind |-> k, row |-> 0, col |-> 0] : k \in {"notArray", "eightRows"}}
    \cup {[kind |-> k, row |-> row, col |-> 0] :
            k \in {"rowNotArray", "rowShort"}, row \in {0, N - 1}}
    \cup {[kind |-> k, row |-> c[1], col |-> c[2]] :
            k \in {"cellNotInteger", "cellTen", "cellNegative"}, c \in ActCells}

Defective(g, d) ==
  LET s == ScanOf(g)
  IN CASE d.kind = "none" -> s
       [] d.kind = "notArray" -> [s EXCEPT !.isArray = FALSE]
       [] d.kind = "eightRows" -> [s EXCEPT !.rows = SubSeq(@, 1, N - 1)]
       [] d.kind = "rowNotArray" -> [s EXCEPT !.rows[d.row + 1].isArray = FALSE]
       [] d.kind = "rowShort" -> [s EXCEPT !.rows[d.row + 1].cells = SubSeq(@, 1, N - 1)]
       [] d.kind = "cellNotInteger" ->
            [s EXCEPT !.rows[d.row + 1].cells[d.col + 1].isInteger = FALSE]
       [] d.kind = "cellTen" -> [s EXCEPT !.rows[d.row + 1].cells[d.col + 1].v = 10]
       [] d.kind = "cellNegative" -> [s EXCEPT !.rows[d.row + 1].cells[d.col + 1].v = 0 - 1]

Scans == {Defective(g, d) : g \in SolverInputs, d \in ScanDefects}

\* the grid of integers held by a scan of the right shape
scanGrid(scan) ==
  [row \in Idx |-> [col \in Idx |-> scan.rows[row + 1].cells[col + 1].v]]

\* variant: the test of the range is missing
lambdaCellOk_NoRange(cell) == cell.isInteger

\* the test of one cell: Number.isInteger(val), 0 <= val <= 9
lambdaCellOk(cell) ==
  ~(~cell.isInteger \/ cell.v < 0 \/ cell.v > 9)

\* the tests of one row; "" when all pass
lambdaRow(rowValue) ==
  IF ~rowValue.isArray \/ Len(rowValue.cells) # N THEN "Invalid puzzle row format"
  ELSE IF \E j \in 1..N : ~lambdaCellOk(rowValue.cells[j]) THEN "Invalid cell value"
  ELSE ""

\* the structural tests of validateAndSolvePuzzle, row after row: the first
\* test that fails decides the error; "" when all pass
lambdaStructure(scan) ==
  IF ~scan.isArray \/ Len(scan.rows) # N THEN "Invalid puzzle format"
  ELSE LET bad == {i \in 1..N : lambdaRow(scan.rows[i]) # ""}
       IN IF bad = {} THEN ""
          ELSE lambdaRow(scan.rows[CHOOSE m \in bad : \A n \in bad : m <= n])

\* one round of isValidPuzzleState: the cell is cleared in the caller's
\* array, tested, and put back
isValidPuzzleStateCell(g, row, col) ==
  LET num == g[row][col]
      cleared == [g EXCEPT ![row][col] = 0]
      isValid == lambda_isValidMove(cleared, row, col, num)
      restored == [cleared EXCEPT ![row][col] = num]
  IN IF num = 0 THEN [ok |-> TRUE, grid |-> g]
     ELSE [ok |-> isValid, grid |-> restored]

RECURSIVE isValidPuzzleStateCols(_, _, _), isValidPuzzleStateRows(_, _)
isValidPuzzleStateCols(g, row, col) ==
  IF col >= N THEN [ok |-> TRUE, grid |-> g]
  ELSE LET r == isValidPuzzleStateCell(g, row, col)
       IN IF r.ok THEN isValidPuzzleStateCols(r.grid, row, col + 1) ELSE r

isValidPuzzleStateRows(g, row) ==
  IF row >= N THEN [ok |-> TRUE, grid |-> g]
  ELSE LET r == isValidPuzzleStateCols(g, row, 0)
       IN IF r.ok THEN isValidPuzzleStateRows(r.grid, row + 1) ELSE r

\* isValidPuzzleState(grid): the result and the grid as the call leaves it
isValidPuzzleState(g) == isValidPuzzleStateRows(g, 0)

RECURSIVE lambda_solveRecursive(_), lambda_solveTry(_, _, _, _)
lambda_solveTry(g, row, col, num) ==
  IF num > N THEN [ok |-> FALSE, grid |-> g]
  ELSE IF lambda_isValidMove(g, row, col, num)
       THEN LET r == lambda_solveRecursive([g EXCEPT ![row][col] = num])
            IN IF r.ok THEN r
               ELSE lambda_solveTry([r.grid EXCEPT ![row][col] = 0], row, col, num + 1)
       ELSE lambda_solveTry(g, row, col, num + 1)

\* solveRecursive(grid): the result and the grid as the call leaves it
lambda_solveRecursive(g) ==
  IF \A row \in Idx, col \in Idx : g[row][col] # 0
  THEN [ok |-> TRUE, grid |-> g]
  ELSE LET k == firstEmpty(g) IN lambda_solveTry(g, k \div N, k % N, 1)

\* solvePuzzle(grid): the heap it leaves and the array it returns (0: null)
lambda_solvePuzzle(heap, ref) ==
  LET copy == lambdaCopy(heap, ref)
      r == lambda_solveRecursive(copy.heap[copy.ref])
  IN [heap |-> [copy.heap EXCEPT ![copy.ref] = r.grid],
      ref |-> IF r.ok THEN copy.ref ELSE 0]

\* what validateAndSolvePuzzle returns, with the calls it made and the
\* contents of the caller's puzzle after the call.  Nothing in the try block
\* can throw on these values, so the catch branch is never taken.
Rejected(error, checked, solved, after) ==
  [isValid |-> FALSE, error |-> error, solution |-> Null,
   consistencyChecked |-> checked, solveAttempted |-> solved, puzzleAfter |-> after]

validateAndSolvePuzzle(scan) ==
  IF lambdaStructure(scan) # ""
  THEN Rejected(lambdaStructure(scan), FALSE, FALSE, Null)
  ELSE LET state == isValidPuzzleState(scanGrid(scan))
           heap == (1 :> state.grid)
       IN IF ~state.ok
          THEN Rejected("Puzzle has conflicts", TRUE, FALSE, state.grid)
          ELSE LET copy == lambdaCopy(heap, 1)
                   solved == lambda_solvePuzzle(copy.heap, copy.ref)
               IN IF solved.ref = 0
                  THEN Rejected("Puzzle has no valid solution", TRUE, TRUE,
                                solved.heap[1])
                  ELSE [isValid |-> TRUE, error |-> "", solution |-> solved.heap[solved.ref],
                        consistencyChecked |-> TRUE, solveAttempted |-> TRUE,
                        puzzleAfter |-> solved.heap[1]]

\* a direct call of validateAndSolvePuzzle
ValidateAndSolvePuzzle(scan) ==
  /\ run' = [fn |-> "validateAndSolvePuzzle", status |-> "returned", scan |-> scan,
             validated |-> TRUE, validation |-> validateAndSolvePuzzle(scan),
             response |-> [statusCode |-> 0]]
  /\ UNCHANGED <<engineVars, appVars, puzzle, ret, refs>>

\* analyzeImageWithBedrock accepts what it parsed
bedrockShapeOk(scan) ==
  /\ scan.isArray
  /\ Len(scan.rows) = N
  /\ \A i \in 1..N : scan.rows[i].isArray /\ Len(scan.rows[i].cells) = N

createErrorResponse(statusCode, message) ==
  [statusCode |-> statusCode, success |-> FALSE, error |-> message,
   puzzle |-> Null, solution |-> Null]

createSuccessResponse(p, s) ==
  [statusCode |-> 200, success |-> TRUE, error |-> "", puzzle |-> p, solution |-> s]

NotValidated == Rejected("", FALSE, FALSE, Null)

\* exports.handler(event): the event carries an image or not, the call of
\* the recognition service fails or answers with the scan
Handler(hasImage, bedrockAnswers, scan) ==
  /\ run' =
       IF ~hasImage
       THEN [fn |-> "handler", status |-> "returned", scan |-> Null,
             validated |-> FALSE, validation |-> NotValidated,
             response |-> createErrorResponse(400, "No image data provided")]
       ELSE IF ~bedrockAnswers \/ ~bedrockShapeOk(scan)
       THEN [fn |-> "handler", status |-> "returned",
             scan |-> IF bedrockAnswers THEN scan ELSE Null,
             validated |-> FALSE, validation |-> NotValidated,
             response |-> createErrorResponse(500, "Image processing failed")]
       ELSE LET validation == validateAndSolvePuzzle(scan)
            IN [fn |-> "handler", status |-> "returned", scan |-> scan,
                validated |-> TRUE, validation |-> validation,
                response |->
                  IF ~validation.isValid
                  THEN createErrorResponse(400, IF validation.error # ""
                                                THEN validation.error
                                                ELSE "Invalid puzzle detected")
                  ELSE createSuccessResponse(validation.puzzleAfter, validation.solution)]
  /\ UNCHANGED <<engineVars, appVars, puzzle, ret, refs>>

LambdaNext ==
  \/ \E scan \in Scans : ValidateAndSolvePuzzle(scan)
  \/ \E hasImage \in BOOLEAN, bedrockAnswers \in BOOLEAN, scan \in Scans :
        Handler(hasImage, bedrockAnswers, scan)

LambdaSpec == Init /\ [][LambdaNext]_vars

(***************************************************************************)
(* SudokooApp.startNewGame and processSudokuImage.  The scan is            *)
(* asynchronous: between the request and the answer of the scan service    *)
(* the player's handlers may run.                                          *)
(***************************************************************************)
\* the puzzles startNewGame gets from the puzzle manager; their solution is
\* Base
GamePuzzles == {PuzzleTable[2], PuzzleTable[3]}

StartNewGame(p) ==
  /\ grid' = deepCopy(p)
  /\ initialGrid' = deepCopy(p)
  /\ solution' = deepCopy(Base)
  /\ pencilMarks' = emptyMarks
  /\ puzzle' = p
  /\ selectedCell' = NoCell
  /\ timer' = TRUE
  /\ ret' = Ret("startNewGame", TRUE, "New easy puzzle loaded!")
  /\ UNCHANGED <<pencilMode, refs, run>>

\* the grids the scan service answers with success: true, and its solution
ScanGames ==
  {g \in {SolverTable[i] : i \in {1, 2, 4}} : validateAndSolvePuzzle(ScanOf(g)).isValid}

\* what comes back from fetch: a network error, a response that is not ok
\* (the service's 400 and 500), or a JSON body; solutionType is the type of
\* the body's solution field (a grid, absent, or a truthy value that is no grid)
ScanOutcomes ==
  {[kind |-> k, success |-> FALSE, puzzle |-> Null, solution |-> Null, solutionType |-> "undefined"] : k \in {"network", "http"}}
    \cup {[kind |-> "json", success |-> FALSE, puzzle |-> Null, solution |-> Null, solutionType |-> "undefined"]}
    \cup UNION {{[kind |-> "json", success |-> TRUE, puzzle |-> g,
                  solution |-> validateAndSolvePuzzle(ScanOf(g)).solution,
                  solutionType |-> "array"],
                 [kind |-> "json", success |-> FALSE, puzzle |-> g,
                  solution |-> validateAndSolvePuzzle(ScanOf(g)).solution,
                  solutionType |-> "array"],
                 [kind |-> "json", success |-> TRUE, puzzle |-> g,
                  solution |-> Null, solutionType |-> "undefined"],
                 [kind |-> "json", success |-> TRUE, puzzle |-> Null,
                  solution |-> validateAndSolvePuzzle(ScanOf(g)).solution,
                  solutionType |-> "array"],
                 [kind |-> "json", success |-> TRUE, puzzle |-> g,
                  solution |-> Null, solutionType |-> "string"]} : g \in ScanGames}

\* result.success && result.puzzle && result.solution
scanAccepted(outcome) ==
  /\ outcome.kind = "json"
  /\ outcome.success
  /\ outcome.puzzle # Null
  /\ outcome.solutionType # "undefined"

\* processSudokuImage up to the await of fetch
ScanStart ==
  /\ Started
  /\ ~(run.fn = "processSudokuImage" /\ run.status = "pending")
  /\ run' = [fn |-> "processSudokuImage", status |-> "pending"]
  /\ ret' = Ret("processSudokuImage", TRUE, "Analyzing image with AI...")
  /\ UNCHANGED <<engineVars, appVars, puzzle, refs>>

\* variant: the selection is dropped before the answer is looked at
ScanFinish_DeselectFirst(outcome) ==
  /\ run.fn = "processSudokuImage"
  /\ run.status = "pending"
  /\ run' = [fn |-> "processSudokuImage", status |-> "done", outcome |-> outcome]
  /\ selectedCell' = NoCell
  /\ IF scanAccepted(outcome) /\ outcome.solutionType = "array"
     THEN /\ grid' = deepCopy(outcome.puzzle)
          /\ initialGrid' = deepCopy(outcome.puzzle)
          /\ solution' = deepCopy(outcome.solution)
          /\ pencilMarks' = emptyMarks
          /\ puzzle' = outcome.puzzle
          /\ timer' = TRUE
          /\ ret' = Ret("processSudokuImage", TRUE, "Puzzle successfully loaded from image!")
     ELSE /\ ret' = Ret("processSudokuImage", FALSE, "Image processing failed")
          /\ UNCHANGED <<engineVars, puzzle, timer>>
  /\ UNCHANGED <<pencilMode, refs>>

\* processSudokuImage from the answer of fetch on.  With a solution that is
\* no array, init throws in deepCopy(solution) after it has replaced grid and
\* initialGrid, and the catch block reports the failure.
ScanFinish(outcome) ==
  /\ run.fn = "processSudokuImage"
  /\ run.status = "pending"
  /\ run' = [fn |-> "processSudokuImage", status |-> "done", outcome |-> outcome]
  /\ IF outcome.kind = "network"
     THEN /\ ret' = Ret("processSudokuImage", FALSE, "Camera feature not yet available")
          /\ UNCHANGED <<engineVars, puzzle, selectedCell, timer>>
     ELSE IF outcome.kind = "http"
     THEN /\ ret' = Ret("processSudokuImage", FALSE, "Image processing failed")
          /\ UNCHANGED <<engineVars, puzzle, selectedCell, timer>>
     ELSE IF ~scanAccepted(outcome)
     THEN /\ ret' = Ret("processSudokuImage", FALSE, "Could not detect puzzle")
          /\ UNCHANGED <<engineVars, puzzle, selectedCell, timer>>
     ELSE IF outcome.solutionType # "array"
     THEN /\ grid' = deepCopy(outcome.puzzle)
          /\ initialGrid' = deepCopy(outcome.puzzle)
          /\ puzzle' = outcome.puzzle
          /\ ret' = Ret("processSudokuImage", FALSE, "Image processing failed")
          /\ UNCHANGED <<solution, pencilMarks, selectedCell, timer>>
     ELSE /\ grid' = deepCopy(outcome.puzzle)
          /\ initialGrid' = deepCopy(outcome.puzzle)
          /\ solution' = deepCopy(outcome.solution)
          /\ pencilMarks' = emptyMarks
          /\ puzzle' = outcome.puzzle
          /\ selectedCell' = NoCell
          /\ timer' = TRUE
          /\ ret' = Ret("processSudokuImage", TRUE, "Puzzle successfully loaded from image!")
  /\ UNCHANGED <<pencilMode, refs>>

\* the cells the player selects and the keys the player presses during a scan
ScanCells == {<<0,0>>, <<8,8>>, <<3,5>>}
ScanKeys == {1, Base[8][8], Base[3][5]}

ScanNext ==
  \/ \E p \in GamePuzzles : StartNewGame(p)
  \/ \E c \in ScanCells : SelectCell(c[1], c[2])
  \/ TogglePencilMode
  \/ \E num \in ScanKeys : InputNumber(num)
  \/ ScanStart
  \/ \E outcome \in ScanOutcomes : ScanFinish(outcome)

ScanSpec == Init /\ [][ScanNext]_vars

(***************************************************************************)
(* Vocabulary of the properties, stated without the engine's operators.    *)
(***************************************************************************)
AllCells == Idx \X Idx

boxIndex(row, col) == (row \div BOX) * BOX + (col \div BOX)

\* c and d are two different cells of one row, column or box
SameUnit(c, d) ==
  /\ c # d
  /\ \/ c[1] = d[1]
     \/ c[2] = d[2]
     \/ boxIndex(c[1], c[2]) = boxIndex(d[1], d[2])

\* the other cells of c's row, column and box
Peers == [c \in AllCells |-> {d \in AllCells : SameUnit(c, d)}]

\* num is the value of a cell other than c in c's row, column or box
OccursElsewhere(g, c, num) ==
  \E d \in Peers[c] : g[d[1]][d[2]] = num

NoDuplicates(g) ==
  \A c \in AllCells :
     g[c[1]][c[2]] # 0 => \A d \in Peers[c] : g[c[1]][c[2]] # g[d[1]][d[2]]

AllFilled(g) == \A c \in AllCells : g[c[1]][c[2]] # 0

\* every row, column and box of g is a permutation of 1..9
CompleteValid(g) ==
  /\ \A c \in AllCells : g[c[1]][c[2]] \in Digits
  /\ NoDuplicates(g)

SomeMarks == \E c \in AllCells : pencilMarks[c[1]][c[2]] # {}

NonGivenFilled == {c \in AllCells : initialGrid[c[1]][c[2]] = 0 /\ grid[c[1]][c[2]] # 0}

\* the complete grids without duplicates that agree with g on its non-zero
\* cells, found by filling the last empty cell first
RECURSIVE Completions(_)
Completions(g) ==
  IF AllFilled(g) THEN IF NoDuplicates(g) THEN {g} ELSE {}
  ELSE LET E == {k \in 0..(N * N - 1) : g[k \div N][k % N] = 0}
           k == CHOOSE m \in E : \A n \in E : n <= m
           c == <<k \div N, k % N>>
       IN UNION {Completions([g EXCEPT ![c[1]][c[2]] = num]) :
                   num \in {v \in Digits : ~OccursElsewhere(g, c, v)}}

\* h has the value of g wherever g is not 0
Extends(h, g) ==
  \A c \in AllCells : g[c[1]][c[2]] # 0 => h[c[1]][c[2]] = g[c[1]][c[2]]

\* the contents of the array passed to solvePuzzle: the search writes to its
\* working array only, so they are what they were unless the two are one array
SolverArgument == IF run.workRef = run.argRef THEN run.grid ELSE run.input

\* a comes before b, or is b, when both are read in row-major order
LexLeq(a, b) ==
  \/ a = b
  \/ \E k \in 0..(N * N - 1) :
        /\ a[k \div N][k % N] < b[k \div N][k % N]
        /\ \A m \in 0..(k - 1) : a[m \div N][m % N] = b[m \div N][m % N]

\* a solver has returned
SolverReturned == run.fn \in SolverFns /\ run.status \in {"true", "false"}

\* generateFreshPuzzle has returned its record
Generated == run.fn = "generateFreshPuzzle"

\* the grids behind the puzzle and the solution field of the record
GeneratedPuzzle == run.heap[run.puzzle]
GeneratedSolution == run.heap[run.solution]

\* the closed range of clue counts of a difficulty level
ClueRange(level) ==
  CASE level = "easy" -> 45..50
    [] level = "medium" -> 35..40
    [] level = "hard" -> 25..30
    [] level = "expert" -> 17..22

\* the first n cells, as <<row, col>>, of the shuffled list of positions
FirstVisited(n) ==
  {<<((run.shuffle[1] * (k - 1) + run.shuffle[2]) % (N * N)) \div N,
     ((run.shuffle[1] * (k - 1) + run.shuffle[2]) % (N * N)) % N>> : k \in 1..n}

\* the number of non-zero cells of g
ClueCount(g) == Cardinality({c \in AllCells : g[c[1]][c[2]] # 0})

\* validateAndSolvePuzzle has returned (called directly or by the handler)
Validated == run.fn \in {"validateAndSolvePuzzle", "handler"} /\ run.validated

\* the scanned value is a 9x9 array of integers in 0..9
WellFormed(scan) ==
  /\ scan.isArray
  /\ Len(scan.rows) = N
  /\ \A i \in 1..N :
        /\ scan.rows[i].isArray
        /\ Len(scan.rows[i].cells) = N
        /\ \A j \in 1..N :
              scan.rows[i].cells[j].isInteger /\ scan.rows[i].cells[j].v \in 0..9

\* the grid a well-formed scan holds
ScannedGrid == [row \in Idx |-> [col \in Idx |-> run.scan.rows[row + 1].cells[col + 1].v]]

StructuralErrors ==
  {"Invalid puzzle format", "Invalid puzzle row format", "Invalid cell value"}

\* s lists the members of S in ascending order
AscendingListOf(s, S) ==
  /\ Len(s) = Cardinality(S)
  /\ {s[k] : k \in 1..Len(s)} = S
  /\ \A k \in 1..(Len(s) - 1) : s[k] < s[k + 1]

(***************************************************************************)
(* Properties                                                              *)
(***************************************************************************)

\* C1: as soon as a successful non-zero placeNumber leaves every cell non-zero
\* and the grid free of row/column/box duplicates, isSolved() is true; and
\* isSolved() is false whenever some cell is 0 or some duplicate exists.
C1_SolvedOnceCompleteAndConsistent ==
  /\ (ret.op = "placeNumber" /\ ret.success /\ AllFilled(grid) /\ NoDuplicates(grid))
        => isSolved
  /\ (~AllFilled(grid) \/ ~NoDuplicates(grid)) => ~isSolved

\* C2: right after init with a complete valid grid (all 81 cells given) the
\* session reports Solved: isSolved() and getStats().isValid are true.
C2_CompleteGridSolvedAtInit ==
  (ret.op = "init" /\ CompleteValid(puzzle)) => (isSolved /\ isValidSolution)

\* C3: placeNumber on a given cell, for every value 0..9, returns success=false
\* with a non-null error and changes nothing of the engine; inputNumber and
\* eraseCell on a selected given cell change nothing of the engine either,
\* in pencil mode and in normal mode.
C3_GivenCellImmutable ==
  /\ [](\A c \in ActCells, num \in NumInputs :
          initialGrid[c[1]][c[2]] # 0 =>
             LET o == placeNumberOutcome(c[1], c[2], num)
             IN /\ o.success = FALSE
                /\ o.error = "Cannot modify given numbers"
                /\ o.grid = grid
                /\ o.pencilMarks = pencilMarks)
  /\ [][ /\ (ret'.op = "placeNumber" /\ ret'.error = "Cannot modify given numbers")
             => UNCHANGED engineVars
         /\ (/\ ret'.op \in {"inputNumber", "eraseCell"}
             /\ selectedCell # NoCell
             /\ initialGrid[selectedCell[1]][selectedCell[2]] # 0)
               => UNCHANGED engineVars ]_vars

C3_Witness ==
  /\ ret.op = "placeNumber"
  /\ ret.success = FALSE
  /\ ret.error = "Cannot modify given numbers"
  /\ SomeMarks
  /\ NonGivenFilled # {}
  /\ pencilMode

\* C4: placeNumber(row, col, v), v in 1..9, on a non-given cell when v is the
\* value of another cell of the row, column or box returns success=false with
\* error 'Invalid move' and leaves the grid and every mark set as they were.
C4_IllegalPlacementRejected ==
  \A c \in ActCells, num \in Digits :
     (initialGrid[c[1]][c[2]] = 0 /\ OccursElsewhere(grid, c, num)) =>
        LET o == placeNumberOutcome(c[1], c[2], num)
        IN /\ o.success = FALSE
           /\ o.error = "Invalid move"
           /\ o.grid = grid
           /\ o.pencilMarks = pencilMarks

C4_Witness ==
  /\ ret.op = "placeNumber"
  /\ ret.success = FALSE
  /\ ret.error = "Invalid move"
  /\ \E c \in ActCells : grid[c[1]][c[2]] = 0 /\ pencilMarks[c[1]][c[2]] # {}

\* C5: placeNumber(row, col, v), v in 1..9, on a non-given cell when v occurs
\* nowhere else in the row, column or box succeeds, sets the cell to v, empties
\* the cell's marks and removes v from the marks of the row, column and box,
\* whether or not v is the solution's value (isCorrectMove is then false).
C5_LegalPlacementCommitted ==
  \A c \in ActCells, num \in Digits :
     (initialGrid[c[1]][c[2]] = 0 /\ ~OccursElsewhere(grid, c, num)) =>
        LET o == placeNumberOutcome(c[1], c[2], num)
        IN /\ o.success = TRUE
           /\ o.error = "null"
           /\ o.grid = [grid EXCEPT ![c[1]][c[2]] = num]
           /\ o.pencilMarks[c[1]][c[2]] = {}
           /\ \A d \in Peers[c] : o.pencilMarks[d[1]][d[2]] = pencilMarks[d[1]][d[2]] \ {num}
           /\ (solution # Null /\ solution[c[1]][c[2]] # num)
                 => ~isCorrectMove(c[1], c[2], num)

\* reached by a legal placement that differs from the stored solution
C5_Witness ==
  /\ ret.op = "placeNumber"
  /\ ret.success
  /\ solution # Null
  /\ \E c \in NonGivenFilled : grid[c[1]][c[2]] # solution[c[1]][c[2]]
  /\ SomeMarks

\* C6: if the puzzle passed to init has no two equal non-zero values in a row,
\* column or box, the working grid never has either.
C6_GridStaysConsistent ==
  (Started /\ NoDuplicates(puzzle)) => NoDuplicates(grid)

C6_Witness ==
  /\ NoDuplicates(puzzle)
  /\ ret.op = "placeNumber"
  /\ ret.error = "Invalid move"
  /\ Cardinality(NonGivenFilled) >= 2

\* C7: between two init calls initialGrid equals the puzzle passed to init and
\* every given cell of the working grid holds its initial value.
C7_GivenMaskImmutable ==
  Started =>
    /\ initialGrid = puzzle
    /\ \A c \in AllCells :
          initialGrid[c[1]][c[2]] # 0 => grid[c[1]][c[2]] = initialGrid[c[1]][c[2]]

C7_Witness ==
  /\ ret.op = "reset"
  /\ \E c \in AllCells : puzzle[c[1]][c[2]] # 0
  /\ \E c \in AllCells : puzzle[c[1]][c[2]] = 0

\* C8: placeNumber(row, col, 0) on a non-given cell succeeds, sets the cell to
\* 0 and leaves every other cell and every mark set, the cell's own too.
C8_EraseLeavesMarks ==
  \A c \in ActCells :
     initialGrid[c[1]][c[2]] = 0 =>
        LET o == placeNumberOutcome(c[1], c[2], 0)
        IN /\ o.success = TRUE
           /\ o.grid = [grid EXCEPT ![c[1]][c[2]] = 0]
           /\ o.pencilMarks = pencilMarks

\* a successful placeNumber that left no player value behind, with marks kept
C8_Witness ==
  /\ ret.op = "placeNumber"
  /\ ret.success
  /\ NonGivenFilled = {}
  /\ \E c \in ActCells : pencilMarks[c[1]][c[2]] # {}

\* C9: for every cell and every value 1..9, isValidMove(row, col, value) is
\* true iff value is not the value of another cell of the row, column or box.
C9_IsValidMoveIsLegality ==
  Started =>
    \A c \in AllCells, num \in Digits :
       isValidMove(c[1], c[2], num) <=> ~OccursElsewhere(grid, c, num)

\* C10: getPossibleValues(row, col) is, for an empty cell, the ascending list
\* of the values 1..9 that occur nowhere in the cell's row, column or box, and
\* the empty list for a non-empty cell.
C10_PossibleValues ==
  \A c \in AllCells :
     IF grid[c[1]][c[2]] # 0
     THEN getPossibleValues(c[1], c[2]) = <<>>
     ELSE AscendingListOf(getPossibleValues(c[1], c[2]),
                          {num \in Digits : ~OccursElsewhere(grid, c, num)})

C10_Witness ==
  /\ ret.op = "placeNumber"
  /\ \E c \in AllCells :
        grid[c[1]][c[2]] = 0 /\ Len(getPossibleValues(c[1], c[2])) >= 2
  /\ \E c \in AllCells :
        grid[c[1]][c[2]] = 0 /\ Len(getPossibleValues(c[1], c[2])) = 1

\* the empty cells with exactly one possible value
ForcedCells ==
  {c \in AllCells : grid[c[1]][c[2]] = 0 /\ Len(getPossibleValues(c[1], c[2])) = 1}

\* the first cell of the non-empty set S in row-major order
FirstRowMajor(S) == CHOOSE c \in S : \A d \in S : c[1] * N + c[2] <= d[1] * N + d[2]

\* C11: whenever some empty cell has exactly one possible value, getHint
\* returns the first such cell in row-major order with the one element of
\* getPossibleValues for it (cell (8,8), value 9 on the fallback puzzle), and
\* showHint selects that cell.
C11_HintIsFirstForcedCell ==
  /\ [](ForcedCells # {} =>
          LET c == FirstRowMajor(ForcedCells)
          IN getHint = {Hint(c[1], c[2], getPossibleValues(c[1], c[2])[1],
                             "Only one possible value")})
  /\ [](grid = PuzzleTable[2] =>
          \A hint \in getHint : hint.row = 8 /\ hint.col = 8 /\ hint.value = 9)
  /\ [][(ret'.op = "showHint" /\ ForcedCells # {}) =>
           /\ selectedCell' = FirstRowMajor(ForcedCells)
           /\ ret'.error = hintStatus(getPossibleValues(selectedCell'[1], selectedCell'[2])[1])
        ]_vars

\* showHint chose the second empty cell: the first has two possible values
C11_Witness ==
  /\ ret.op = "showHint"
  /\ Cardinality(ForcedCells) >= 2
  /\ selectedCell = FirstRowMajor(ForcedCells)
  /\ \E c \in AllCells :
        /\ grid[c[1]][c[2]] = 0
        /\ c \notin ForcedCells
        /\ c[1] * N + c[2] < selectedCell[1] * N + selectedCell[2]

\* C12: in every state after init, getHint returns null iff the grid has no
\* empty cell; otherwise every result is a hint for a cell that is empty, and
\* when no empty cell has exactly one possible value the hint's value is the
\* stored solution's value at that cell.
C12_HintIffEmptyCell ==
  Started =>
    /\ (getHint = {NullHint}) <=> AllFilled(grid)
    /\ ~AllFilled(grid) =>
          \A hint \in getHint :
             /\ hint \notin {NullHint, HintTypeError}
             /\ grid[hint.row][hint.col] = 0
             /\ ForcedCells = {} =>
                   (solution # Null /\ hint.value = solution[hint.row][hint.col])

\* C13: init(puzzle) without a solution stores the solver's completion of a
\* copy of the puzzle, and when the puzzle has no completion init does not
\* report success and the session holds no missing (null) solution.
C13_InitFailsOnInfeasible ==
  ret.op = "init" =>
    /\ ret.success => solution # Null
    /\ solvedCopy[puzzle] = Null => (~ret.success /\ solution # Null)

\* C14: after init reports success the stored solution equals the puzzle on
\* every given cell, so a supplied solution that contradicts the givens is
\* never stored.
C14_SuppliedSolutionVerified ==
  (ret.op = "init" /\ ret.success /\ solution # Null) =>
     \A c \in AllCells :
        puzzle[c[1]][c[2]] # 0 => solution[c[1]][c[2]] = puzzle[c[1]][c[2]]

\* C15: reset() makes the working grid equal to the given mask and empties
\* every mark set, leaving initialGrid and solution as they were; a second
\* reset() changes nothing; after reset of a puzzle with a non-given cell
\* isSolved() is false.
C15_Reset ==
  /\ [][ret'.op = "reset" =>
           /\ grid' = initialGrid
           /\ pencilMarks' = emptyMarks
           /\ initialGrid' = initialGrid
           /\ solution' = solution]_vars
  /\ [][(ret.op = "reset" /\ ret'.op = "reset") => UNCHANGED engineVars]_vars
  /\ [](ret.op = "reset" =>
          /\ deepCopy(initialGrid) = grid
          /\ emptyMarks = pencilMarks
          /\ (\E c \in AllCells : initialGrid[c[1]][c[2]] = 0) => ~isSolved)

C15_Witness ==
  /\ ret.op = "reset"
  /\ grid = initialGrid
  /\ Cardinality({c \in AllCells : initialGrid[c[1]][c[2]] = 0}) >= 2
  /\ solution # Null
  /\ ~isSolved

\* C16: when placeNumber(r, c, v) succeeds on an empty non-given cell, a
\* following placeNumber(r, c, 0) succeeds and leaves the working grid exactly
\* as it was before the pair, and isSolved() is false after it, also when the
\* grid was complete in between.
C16_PlaceThenEraseRestoresGrid ==
  [][(ret'.op = "placeNumber" /\ ret'.success) =>
       /\ \A c \in ActCells :
             (initialGrid[c[1]][c[2]] = 0 /\ grid[c[1]][c[2]] = 0 /\ grid'[c[1]][c[2]] # 0) =>
                LET erased == (placeNumberOutcome(c[1], c[2], 0))'
                IN /\ erased.success
                   /\ erased.grid = grid
                   /\ ~(AllFilled(erased.grid) /\ isValidSolutionOn(erased.grid))
       /\ (\E c \in ActCells : grid[c[1]][c[2]] # 0 /\ grid'[c[1]][c[2]] = 0) => ~isSolved'
    ]_vars

\* the state between the two calls, with the grid complete
C16_Witness ==
  /\ ret.op = "placeNumber"
  /\ ret.success
  /\ AllFilled(grid)
  /\ NonGivenFilled # {}
  /\ placeNumberOutcome(8, 8, 0).success
  /\ placeNumberOutcome(8, 8, 0).grid = initialGrid

\* C19: togglePencilMark(row, col, v) on an empty cell flips the membership
\* of v in that cell's mark set and changes nothing else, whether or not v
\* occurs in the cell's row, column or box; on a non-empty cell every mark
\* set stays as it was.
C19_ToggleFlipsMembership ==
  /\ [](\A c \in ActCells, num \in Digits :
          LET o == togglePencilMarkOutcome(c[1], c[2], num)
          IN IF grid[c[1]][c[2]] = 0
             THEN o.pencilMarks =
                    [pencilMarks EXCEPT ![c[1]][c[2]] =
                       IF num \in @ THEN @ \ {num} ELSE @ \cup {num}]
             ELSE o.pencilMarks = pencilMarks)
  /\ [][ret'.op = "togglePencilMark" => UNCHANGED <<grid, initialGrid, solution>>]_vars

\* the cells other than c in c's row, column or box that hold num
ConflictsOf(c, num) == {d \in Peers[c] : grid[d[1]][d[2]] = num}

CellsListed(s) == {s[k] : k \in 1..Len(s)}

\* C20 as stated: for every cell and every value 1..9, getConflictingCells
\* returns exactly the other cells of the row, column or box that hold the
\* value, whether or not the cell itself holds it.
C20_ConflictsOfAnyValue ==
  Started =>
    \A c \in AllCells, num \in Digits :
       CellsListed(getConflictingCells(c[1], c[2], num)) = ConflictsOf(c, num)

\* C20: for every cell and every value 1..9, getConflictingCells lists exactly
\* the other cells of the row, column or box that hold the value when the cell
\* itself holds it, and returns the empty list when the cell is empty or
\* holds another value.
C20_ConflictsOfHeldValue ==
  Started =>
    \A c \in AllCells, num \in Digits :
       IF grid[c[1]][c[2]] = num
       THEN CellsListed(getConflictingCells(c[1], c[2], num)) = ConflictsOf(c, num)
       ELSE getConflictingCells(c[1], c[2], num) = <<>>

\* a cell holds a value that another cell of its row and box holds too, and
\* an empty cell sees a value for which the list is empty
C20_Witness ==
  /\ ret.op = "placeNumber"
  /\ \E c \in AllCells :
        /\ grid[c[1]][c[2]] # 0
        /\ Len(getConflictingCells(c[1], c[2], grid[c[1]][c[2]])) >= 2
  /\ \E c \in AllCells, num \in Digits :
        /\ grid[c[1]][c[2]] = 0
        /\ ConflictsOf(c, num) # {}
        /\ getConflictingCells(c[1], c[2], num) = <<>>

QueryOps ==
  {"getProgress", "getStats", "isSolved", "isValidSolution", "getPossibleValues",
   "getConflictingCells", "getHighlightedCells", "getHint", "isCorrectMove",
   "isGivenCell"}

\* C18: getProgress, getStats, isSolved, isValidSolution, getPossibleValues,
\* getConflictingCells, getHighlightedCells, getHint, isCorrectMove and
\* isGivenCell leave the working grid, initialGrid, solution and every mark
\* set as they were; the cell isValidSolution clears is restored, also when
\* it returns false early.
C18_QueriesChangeNothing ==
  /\ [][ret'.op \in QueryOps => UNCHANGED engineVars]_vars
  /\ [](Started => isValidSolutionRun.grid = grid)

\* isValidSolution returned false early, with player values and marks present
C18_Witness ==
  /\ ret.op = "isValidSolution"
  /\ ~ret.success
  /\ NonGivenFilled # {}
  /\ SomeMarks

\* the arrays the engine's fields refer to are three different arrays, and
\* none of them is an array the caller holds
NoSharedArray ==
  /\ refs.grid # 0
  /\ refs.initialGrid # 0
  /\ Cardinality({refs.grid, refs.initialGrid, refs.solution}) = 3
  /\ {refs.grid, refs.initialGrid, refs.solution}
        \cap {refs.puzzleArg, refs.solutionArg, refs.returned} \subseteq {0}

\* C17: the session shares no array with its caller or between its own
\* grids: a write by the caller to the puzzle or solution array it passed to
\* init, or to an array a getter returned, changes no engine field, and a
\* placeNumber changes neither initialGrid nor solution.
C17_NoSharedArrays ==
  /\ [](Started => NoSharedArray)
  /\ [][ret'.op = "callerWrite" => UNCHANGED engineVars]_vars
  /\ [][ret'.op = "placeNumber" => UNCHANGED <<initialGrid, solution>>]_vars

\* the caller wrote to an array a getter returned, holding a puzzle and a
\* solution array too, after a placement and a reset
C17_Witness ==
  /\ ret.op = "callerWrite"
  /\ ret.error = "returned"
  /\ refs.puzzleArg # 0
  /\ refs.solutionArg # 0
  /\ NonGivenFilled # {}
  /\ refs.grid # newRefs.grid
\* C21 (as stated): whenever solvePuzzle returns a grid, for any input grid
\* with cells in 0..9, that grid has no zero cell, agrees with the input on
\* the input's non-zero cells and has every row, column and box a
\* permutation of 1..9.
C21_SolvedGridValidForAnyInput ==
  (SolverReturned /\ solvePuzzleReturn # Null) =>
     /\ AllFilled(solvePuzzleReturn)
     /\ Extends(solvePuzzleReturn, run.input)
     /\ CompleteValid(solvePuzzleReturn)

\* C21 (amended): the same, for the input grids whose non-zero cells hold no
\* duplicate in a row, column or box.
C21_SolvedGridValidForConsistentInput ==
  (SolverReturned /\ solvePuzzleReturn # Null /\ NoDuplicates(run.input)) =>
     /\ AllFilled(solvePuzzleReturn)
     /\ Extends(solvePuzzleReturn, run.input)
     /\ CompleteValid(solvePuzzleReturn)

\* the engine's solver returned a grid for consistent givens, and the value
\* of the first empty cell is not the first one that was legal there: the
\* first choice had to be undone
C21_Witness ==
  /\ run.fn = "solveRecursive"
  /\ run.status = "true"
  /\ NoDuplicates(run.input)
  /\ run.input[0][0] = 0
  /\ \E v \in Digits : v < run.grid[0][0] /\ ~OccursElsewhere(run.input, <<0, 0>>, v)

\* C22: on an input whose non-zero cells are mutually consistent, solvePuzzle
\* returns null only if the input has no valid completion, and returns one of
\* the completions if there is one.
C22_SolverExhaustive ==
  (SolverReturned /\ NoDuplicates(run.input)) =>
     /\ solvePuzzleReturn = Null => Completions(run.input) = {}
     /\ Completions(run.input) # {} => solvePuzzleReturn \in Completions(run.input)

\* a solver returned null on consistent givens that leave empty cells
C22_Witness ==
  /\ SolverReturned
  /\ solvePuzzleReturn = Null
  /\ NoDuplicates(run.input)
  /\ ~AllFilled(run.input)

\* C23: every backtracking search (solveRecursive of the engine and of the
\* scan service, fillGrid) that has started returns true or false.
C23_SearchTerminates == Searching ~> ~Searching

\* the scan service's solver has returned false after undoing a placement
C23_Witness ==
  /\ run.fn = "lambda.solveRecursive"
  /\ run.status = "false"
  /\ run.grid = run.input

\* C24: whatever the shuffles give, fillGrid returns true and the grid that
\* generateCompletePuzzle returns has every row, column and box a permutation
\* of 1..9.
C24_CompleteGridValid ==
  /\ run.fn = "fillGrid" => run.status # "false"
  /\ (run.fn = "fillGrid" /\ run.status = "true") => CompleteValid(run.grid)

\* fillGrid returned true with a grid other than Base
C24_Witness ==
  /\ run.fn = "fillGrid"
  /\ run.status = "true"
  /\ run.grid # Base

\* C25: each cell of the grid createPuzzle returns is 0 or the value of the
\* same cell of the solution it was given.
C25_PuzzleCellsFromSolution ==
  Generated =>
     \A c \in AllCells :
        \/ GeneratedPuzzle[c[1]][c[2]] = 0
        \/ GeneratedPuzzle[c[1]][c[2]] = run.input[c[1]][c[2]]

\* a puzzle was derived from a solution other than Base, by a shuffle other
\* than the identity
C25_Witness ==
  /\ Generated
  /\ run.input # Base
  /\ GeneratedPuzzle[0][0] = 0
  /\ GeneratedPuzzle[0][1] # 0
  /\ ClueCount(GeneratedPuzzle) < N * N

\* C26: for each of the four difficulties the clue count c of the returned
\* puzzle satisfies target <= c <= 81, and c >= 17 (at most 64 empty cells).
C26_ClueCountBounds ==
  (Generated /\ run.difficulty \in Levels) =>
     /\ run.targetClues <= ClueCount(GeneratedPuzzle)
     /\ ClueCount(GeneratedPuzzle) <= N * N
     /\ ClueCount(GeneratedPuzzle) >= 17

\* an expert puzzle was cut down to the smallest target
C26_Witness ==
  /\ Generated
  /\ run.difficulty = "expert"
  /\ run.targetClues = 17
  /\ ClueCount(GeneratedPuzzle) = 17

\* C27: for a difficulty that is none of the four levels the target is
\* sampled from 35..40, as for medium, and a puzzle with that many clues,
\* all taken from the solution, is returned.
C27_UnknownDifficultyAsMedium ==
  (Generated /\ run.difficulty \notin Levels) =>
     /\ run.targetClues \in 35..40
     /\ ClueCount(GeneratedPuzzle) = run.targetClues
     /\ Extends(run.input, GeneratedPuzzle)

\* C28: after createPuzzle the solution argument is what it was, cell for
\* cell, and complete; the returned puzzle is another array; the solution
\* field of generateFreshPuzzle's record is the complete grid.
C28_SolutionUntouched ==
  Generated =>
     /\ GeneratedSolution = run.input
     /\ CompleteValid(GeneratedSolution)
     /\ run.puzzle # run.solution

\* cells were removed from the puzzle of a returned record
C28_Witness ==
  /\ Generated
  /\ ClueCount(GeneratedPuzzle) < N * N
  /\ ClueCount(GeneratedSolution) = N * N

\* C29: validateAndSolvePuzzle accepts no grid that fails a stage, and the
\* stages come in a fixed order: a value of the wrong shape or with a cell that
\* is not an integer in 0..9 is rejected before any consistency check or solve;
\* a well-formed grid with a duplicate is rejected with 'Puzzle has conflicts'
\* before any solve; a well-formed consistent grid without completion is
\* rejected with 'Puzzle has no valid solution'.
C29_StagedRejection ==
  Validated =>
     /\ ~WellFormed(run.scan) =>
           /\ ~run.validation.isValid
           /\ run.validation.error \in StructuralErrors
           /\ ~run.validation.consistencyChecked
           /\ ~run.validation.solveAttempted
     /\ (WellFormed(run.scan) /\ ~NoDuplicates(ScannedGrid)) =>
           /\ ~run.validation.isValid
           /\ run.validation.error = "Puzzle has conflicts"
           /\ ~run.validation.solveAttempted
     /\ (WellFormed(run.scan) /\ NoDuplicates(ScannedGrid)
           /\ Completions(ScannedGrid) = {}) =>
           /\ ~run.validation.isValid
           /\ run.validation.error = "Puzzle has no valid solution"

\* a scan with an out-of-range cell and, besides, a duplicate among its other
\* cells was rejected
C29_Witness ==
  /\ Validated
  /\ run.scan.isArray
  /\ Len(run.scan.rows) = N
  /\ \A i \in 1..N : run.scan.rows[i].isArray /\ Len(run.scan.rows[i].cells) = N
  /\ ~WellFormed(run.scan)
  /\ ~NoDuplicates(ScannedGrid)
  /\ ~run.validation.isValid

\* C30: whenever validateAndSolvePuzzle returns isValid = true, the solution
\* is a complete grid with every row, column and box a permutation of 1..9
\* that agrees with the puzzle on its non-zero cells, the puzzle argument is
\* what it was, and the handler's response carries that puzzle.
C30_AcceptedScanSolved ==
  (Validated /\ run.validation.isValid) =>
     /\ WellFormed(run.scan)
     /\ CompleteValid(run.validation.solution)
     /\ Extends(run.validation.solution, ScannedGrid)
     /\ run.validation.puzzleAfter = ScannedGrid
     /\ run.fn = "handler" =>
           /\ run.response.statusCode = 200
           /\ run.response.puzzle = ScannedGrid
           /\ run.response.solution = run.validation.solution

\* the handler answered 200 for a scan with empty cells
C30_Witness ==
  /\ run.fn = "handler"
  /\ run.validated
  /\ run.validation.isValid
  /\ run.response.statusCode = 200
  /\ ~AllFilled(run.response.puzzle)
  /\ AllFilled(run.response.solution)

\* C31: every cell of the working grid is always in 0..9, whatever integer
\* values placeNumber is called with.
C31_CellsInRange ==
  \A c \in AllCells : grid[c[1]][c[2]] \in 0..N

\* C32: under the engine's operations a cell with a non-zero value has no
\* pencil marks, and no cell has marks right after init or reset.
C32_FilledCellsUnmarked ==
  /\ \A c \in AllCells : grid[c[1]][c[2]] # 0 => pencilMarks[c[1]][c[2]] = {}
  /\ ret.op \in {"init", "reset"} => ~SomeMarks

\* addPencilMark was refused on a filled cell while another cell has marks
C32_Witness ==
  /\ ret.op = "addPencilMark"
  /\ ~ret.success
  /\ SomeMarks
  /\ NonGivenFilled # {}

\* C33: a successful placeNumber(row, col, v) only prunes marks: every mark
\* set afterwards is a subset of the set before, v is the only value removed
\* from the cells other than (row, col), and the cells outside the row, column
\* and box of (row, col) keep their sets.
C33_PlacementOnlyPrunes ==
  \A c \in ActCells, num \in NumInputs :
     LET o == placeNumberOutcome(c[1], c[2], num)
     IN o.success =>
          \A d \in AllCells :
             /\ o.pencilMarks[d[1]][d[2]] \subseteq pencilMarks[d[1]][d[2]]
             /\ d # c =>
                  pencilMarks[d[1]][d[2]] \ o.pencilMarks[d[1]][d[2]] \subseteq {num}
             /\ (d # c /\ d \notin Peers[c]) =>
                  o.pencilMarks[d[1]][d[2]] = pencilMarks[d[1]][d[2]]

\* after a successful placement a cell outside the row, column and box of the
\* placed cell still has the placed value among its marks
C33_Witness ==
  /\ ret.op = "placeNumber"
  /\ ret.success
  /\ \E c \in NonGivenFilled, d \in AllCells :
        /\ d # c
        /\ d \notin Peers[c]
        /\ grid[c[1]][c[2]] \in pencilMarks[d[1]][d[2]]

\* C34: whenever a placement made through inputNumber succeeds and leaves
\* the grid with every cell non-zero and no duplicate in a row, column or box,
\* the win is reported (onGameWin: the timer is stopped, the status is the
\* congratulation), also when the value differs from the stored solution's.
C34_WinReported ==
  (/\ ret.op = "inputNumber"
   /\ ret.success
   /\ ret.error \notin {"Pencil mark added", "Pencil mark removed"}
   /\ CompleteValid(grid)) =>
     /\ ret.error = "Congratulations! You solved the puzzle!"
     /\ timer = FALSE

\* C35: solvePuzzle leaves the grid it is given unchanged, on success and on
\* failure, and when solveRecursive returns false its working grid holds
\* exactly what it was called with.
C35_SolverLeavesArgument ==
  SolverReturned =>
     /\ run.workRef # run.argRef
     /\ SolverArgument = run.input
     /\ run.status = "false" => run.grid = run.input

\* the engine's solver returned false for a grid on which it had placed and
\* undone a value: the first empty cell has a legal candidate
C35_Witness ==
  /\ run.fn = "solveRecursive"
  /\ run.status = "false"
  /\ \E k \in 0..(N * N - 1) :
        /\ run.input[k \div N][k % N] = 0
        /\ \A m \in 0..(k - 1) : run.input[m \div N][m % N] # 0
        /\ \E v \in Digits : ~OccursElsewhere(run.input, <<k \div N, k % N>>, v)

\* C36: the legality checks agree.  For every non-given cell and value 1..9
\* the engine's isValidMove equals isValidMoveForGrid on the working grid with
\* that cell set to 0; isValidPlacement of the generator and isValidMove of
\* the scan service equal isValidMoveForGrid on every grid, cell and value;
\* the engine's and the scan service's solvePuzzle return the same result.
C36_LegalityChecksAgree ==
  /\ Started =>
       \A c \in ActCells, num \in Digits :
          initialGrid[c[1]][c[2]] = 0 =>
             isValidMove(c[1], c[2], num)
               = isValidMoveForGrid([grid EXCEPT ![c[1]][c[2]] = 0], c[1], c[2], num)
  /\ run.fn \in SolverFns =>
       \A c \in AllCells, num \in Digits :
          /\ isValidPlacement(run.grid, c[1], c[2], num)
               = isValidMoveForGrid(run.grid, c[1], c[2], num)
          /\ lambda_isValidMove(run.grid, c[1], c[2], num)
               = isValidMoveForGrid(run.grid, c[1], c[2], num)
  /\ (SolverReturned /\ run.fn = "solveRecursive") =>
       solvePuzzleReturn
         = (LET r == lambda_solveRecursive(run.input) IN IF r.ok THEN r.grid ELSE Null)
  /\ (SolverReturned /\ run.fn = "lambda.solveRecursive") =>
       solvePuzzleReturn = solvePuzzle(run.input)

\* the scan service's solver has returned a grid for an input with empty
\* cells while the session holds a value the player placed
C36_Witness ==
  /\ NonGivenFilled # {}
  /\ run.fn = "lambda.solveRecursive"
  /\ run.status = "true"
  /\ ~AllFilled(run.input)

\* C37: for a consistent input grid that has a completion, solvePuzzle returns
\* the completion that comes first in row-major reading, and its result is a
\* function of the input grid.
C37_FirstSolutionInOrder ==
  SolverReturned =>
     /\ (NoDuplicates(run.input) /\ Completions(run.input) # {}) =>
           /\ solvePuzzleReturn \in Completions(run.input)
           /\ \A h \in Completions(run.input) : LexLeq(solvePuzzleReturn, h)
     /\ solvePuzzleReturn = solvePuzzle(run.input)

\* a solver returned a grid for an input with more than one completion
C37_Witness ==
  /\ SolverReturned
  /\ run.status = "true"
  /\ NoDuplicates(run.input)
  /\ Cardinality(Completions(run.input)) >= 2

\* C38: for a complete solution and each of the four difficulties no removal
\* is rejected: the cells removed are the first ones of the shuffled list, the
\* clue count of the puzzle is the sampled target, and it lies in the range
\* of the difficulty.
C38_ClueCountIsTarget ==
  (Generated /\ run.difficulty \in Levels) =>
     /\ ClueCount(GeneratedPuzzle) = run.targetClues
     /\ run.targetClues \in ClueRange(run.difficulty)
     /\ {c \in AllCells : GeneratedPuzzle[c[1]][c[2]] = 0}
          = FirstVisited(N * N - run.targetClues)

\* a hard puzzle with the largest target of its range was made
C38_Witness ==
  /\ Generated
  /\ run.difficulty = "hard"
  /\ run.targetClues = 30
  /\ ClueCount(GeneratedPuzzle) = 30

\* C39: for every cell, filled or empty, togglePencilMark(row, col, v)
\* returns true exactly when v is among the cell's marks after the call.
C39_ToggleReturnsMembership ==
  Started =>
     \A c \in ActCells, num \in MarkInputs :
        LET o == togglePencilMarkOutcome(c[1], c[2], num)
        IN o.value = (num \in o.pencilMarks[c[1]][c[2]])

\* a step of processSudokuImage
ScanStep == run' # run /\ run'.fn = "processSudokuImage"

\* the answer the step has received is a failure: a network error, a response
\* that is not ok, or a body without success, puzzle or solution
ScanFailed ==
  /\ run'.status = "done"
  /\ \/ run'.outcome.kind \in {"network", "http"}
     \/ ~run'.outcome.success
     \/ run'.outcome.puzzle = Null
     \/ run'.outcome.solutionType = "undefined"

\* the session is re-initialised with the puzzle and the solution of the answer
ScanLoaded ==
  /\ grid' = run'.outcome.puzzle
  /\ initialGrid' = run'.outcome.puzzle
  /\ solution' = run'.outcome.solution
  /\ pencilMarks' = emptyMarks
  /\ selectedCell' = NoCell
  /\ timer' = TRUE

\* C40: a scan that fails (network error, HTTP error, or a response without
\* success, puzzle and solution) leaves the grid, the given mask, the solution,
\* the pencil marks, the selected cell and the timer as they were; the session
\* changes only on a response with success, puzzle and solution, and such a
\* response with two grids re-initialises it with them.
C40_FailedScanLeavesGame ==
  [][ScanStep =>
       /\ (run'.status = "pending" \/ ScanFailed) =>
             UNCHANGED <<engineVars, selectedCell, timer>>
       /\ (run'.status = "done" /\ ~ScanFailed /\ run'.outcome.solutionType = "array") =>
             ScanLoaded]_vars

\* a scan has failed while a game was in progress: the timer runs, a cell is
\* selected and holds a value of the player
C40_Witness ==
  /\ run.fn = "processSudokuImage"
  /\ run.status = "done"
  /\ ~ret.success
  /\ run.outcome.kind = "json"
  /\ timer = TRUE
  /\ selectedCell \in NonGivenFilled

====
